---- MODULE Spec2Model ----
(***************************************************************************)
(* A model of the ringdown analysis scripts of EDR-QNM-Search:             *)
(*   scripts/model_gr.py          (freq_tau, planck_taper, damped_sine)    *)
(*   scripts/bayes_compare_edr.py (make_gr_model, make_edr_model,          *)
(*                                 run_nested, bayes_compare, main)        *)
(*   scripts/model_edr_full.py, scripts/model_edr.py (shifted templates)   *)
(*   scripts/fit_edr_full.py      (neg_log_like, fit_edr_full)             *)
(*   scripts/qnm_analysis.py, scripts/run_module_c.py, scripts/run_qnm.py  *)
(*                                (the QNM point-estimate fits)            *)
(*   scripts/build_paper.py       (load_results)                           *)
(*                                                                         *)
(* Numbers.  The scripts compute in IEEE doubles.  The model computes in   *)
(* fixed point, one unit per kind of quantity, rounding to nearest after   *)
(* every multiplication or division the way a float operation rounds:      *)
(*   spin                      1/100                                       *)
(*   remnant mass              0.1 solar mass                              *)
(*   fit coefficients, M*omega, Q, powers     1/10000                      *)
(*   frequency                 0.1 Hz                                      *)
(*   time, decay time          10 microseconds ("tick")                    *)
(*   amplitude, signal, data, deviation ratio, window   1/1000             *)
(*   angle                     1/1000 of pi                                *)
(*   log-likelihood            1e-7                                        *)
(* The transcendental functions (pow, exp, sin) are tables of their        *)
(* rounded values.  A unit-cube coordinate u is the fraction k/UDen.       *)
(***************************************************************************)
EXTENDS Integers, Sequences, FiniteSets, TLC

VARIABLES
    call,       \* the last call of a pure function: its arguments and result
    todo,       \* per caller: the (event, detector) pairs still to analyse
    pc,         \* per caller: where it is in main / bayes_compare
    data,       \* the module-level observed series of bayes_compare_edr.py
    frame,      \* per caller: the locals of its bayes_compare call
    sampler,    \* per caller: the nested sampler of its run_nested call
    out_files,  \* results/bayes_compare: the record written per pair
    report,     \* what main printed per pair
    argv,       \* how main was started: "all", or "single" for one pair
    evidences   \* the log-evidences the sampler may return in this run

vars == <<call, todo, pc, data, frame, sampler, out_files, report, argv, evidences>>

pipeVars == <<todo, pc, data, frame, sampler, out_files, report, argv, evidences>>

-----------------------------------------------------------------------------
(* Fixed-point helpers *)

Abs(x) == IF x < 0 THEN -x ELSE x

\* a / b rounded to the nearest integer (b > 0), halves rounded up
RoundDivPos(a, b) == (a \div b) + (IF 2 * (a % b) >= b THEN 1 ELSE 0)

\* a / b rounded to the nearest integer, b # 0 of either sign
RoundDiv(a, b) == IF b > 0 THEN RoundDivPos(a, b) ELSE RoundDivPos(-a, -b)

\* product of two 1/10000 fixed-point numbers
FMul4(a, b) == RoundDiv(a * b, 10000)

\* product of two 1/1000 fixed-point numbers
FMul3(a, b) == RoundDiv(a * b, 1000)

-----------------------------------------------------------------------------
(* scripts/model_gr.py: fit coefficients, in 1/10000 *)

f1_22 == 15251
f2_22 == -11568
f3_22 == 1292
q1_22 == 7000
q2_22 == 14187
q3_22 == -4990

f1_33 == 18956
f2_33 == -13043
f3_33 == 1818
q1_33 == 10000
q2_33 == 14170
q3_33 == -4990

f1_21 == 6000
f2_21 == -2339
f3_21 == 4175
q1_21 == 5000
q2_21 == 7000
q3_21 == -3000

\* c**3 / (2*pi*G*M_sun) in Hz: the frequency of M*omega = 1 at one solar mass
\* (G, c, M_sun of model_gr.py lines 26-28; 32311.526... rounded)
HzPerSolarMass == 32312

\* np.pi as the fraction PiNum / PiDen
PiNum == 355
PiDen == 113

\* The powers (1 - chi)**e the calls of the model need, as Python's float
\* power gives them: base in 1/100, exponent and value in 1/10000.
\*   base > 0: the rounded value;
\*   base = 0: 0 for e > 0, ZeroDivisionError for e < 0;
\*   base < 0 (e is never an integer): a complex number.
\* One row per base: the powers f3_22, f3_33, f3_21, q3_22 (= q3_33), q3_21.
PowRow(base) ==
    CASE base = 110 -> <<10124, 10175, 10406, 9536, 9718>>
      [] base = 100 -> <<10000, 10000, 10000, 10000, 10000>>
      [] base = 50  -> <<9143, 8816, 7487, 14132, 12311>>
      [] base = 34  -> <<8699, 8219, 6374, 17131, 13822>>
      [] base = 33  -> <<8665, 8175, 6295, 17388, 13946>>
      [] base = 28  -> <<8483, 7934, 5877, 18874, 14651>>
      [] base = 26  -> <<8403, 7828, 5698, 19585, 14980>>
      [] base = 19  -> <<8069, 7394, 4999, 22904, 16458>>
      [] base = 9   -> <<7326, 6455, 3659, 33253, 20593>>
      [] base = 1   -> <<5516, 4329, 1462, 99541, 39811>>

PowColumn(e) ==
    CASE e = f3_22 -> 1 [] e = f3_33 -> 2 [] e = f3_21 -> 3
      [] e = q3_22 -> 4 [] e = q3_21 -> 5

PowTable(base, e) == PowRow(base)[PowColumn(e)]

\* base ** e of Python floats: [kind, val]
Pow(base, e) ==
    IF base > 0 THEN [kind |-> "real", val |-> PowTable(base, e)]
    ELSE IF base = 0
         THEN IF e > 0 THEN [kind |-> "real", val |-> 0]
                       ELSE [kind |-> "ZeroDivisionError", val |-> 0]
         ELSE [kind |-> "complex", val |-> 0]

\* MomegaR(chi, f1, f2, f3) = f1 + f2 * (1.0 - chi)**f3
MomegaR(chi, f1, f2, f3) ==
    LET p == Pow(100 - chi, f3)
    IN  [kind |-> p.kind, val |-> IF p.kind = "real" THEN f1 + FMul4(f2, p.val) ELSE 0]

\* a quality factor with the power term subtracted
quality_factor_minus(chi, q1, q2, q3) ==
    LET p == Pow(100 - chi, q3)
    IN  [kind |-> p.kind, val |-> IF p.kind = "real" THEN q1 - FMul4(q2, p.val) ELSE 0]

\* quality_factor(chi, q1, q2, q3) = q1 + q2 * (1.0 - chi)**q3
quality_factor(chi, q1, q2, q3) ==
    LET p == Pow(100 - chi, q3)
    IN  [kind |-> p.kind, val |-> IF p.kind = "real" THEN q1 + FMul4(q2, p.val) ELSE 0]

\* the labels freq_tau supports
SupportedModes == {"22", "33", "21"}

\* the coefficients the if/elif chain of freq_tau selects
ModeCoeffs(mode) ==
    CASE mode = "22" -> [f1 |-> f1_22, f2 |-> f2_22, f3 |-> f3_22,
                         q1 |-> q1_22, q2 |-> q2_22, q3 |-> q3_22]
      [] mode = "33" -> [f1 |-> f1_33, f2 |-> f2_33, f3 |-> f3_33,
                         q1 |-> q1_33, q2 |-> q2_33, q3 |-> q3_33]
      [] mode = "21" -> [f1 |-> f1_21, f2 |-> f2_21, f3 |-> f3_21,
                         q1 |-> q1_21, q2 |-> q2_21, q3 |-> q3_21]

\* what a call of freq_tau ends with: an exception (raised # "none") or a
\* returned pair, which is complex when a negative base was raised to a
\* fractional power.  steps lists the quantities computed before the end.
FTResult(raised, cplx, f0, tau, steps) ==
    [raised |-> raised, complex |-> cplx, f0 |-> f0, tau |-> tau, steps |-> steps]

\* freq_tau after the mode has selected its coefficients co (lines 100-111):
\* M_solar in 0.1 solar masses, chi in 1/100; f0 in 0.1 Hz, tau in ticks
freq_tau_fit(M_solar, chi, co) ==
    LET Momega == MomegaR(chi, co.f1, co.f2, co.f3)
        Q      == quality_factor(chi, co.q1, co.q2, co.q3)
        f0     == RoundDiv(Momega.val * HzPerSolarMass, M_solar * 100)
        tau    == RoundDiv(Q.val * 100 * PiDen, PiNum * f0)
    IN  IF Momega.kind = "ZeroDivisionError"
        THEN FTResult("ZeroDivisionError", FALSE, 0, 0, <<"M_kg">>)
        ELSE IF M_solar = 0
        THEN FTResult("ZeroDivisionError", FALSE, 0, 0, <<"M_kg", "Momega">>)
        ELSE IF Q.kind = "ZeroDivisionError"
        THEN FTResult("ZeroDivisionError", FALSE, 0, 0,
                      <<"M_kg", "Momega", "omega", "f0">>)
        ELSE IF Momega.kind = "complex"
        THEN FTResult("none", TRUE, 0, 0,
                      <<"M_kg", "Momega", "omega", "f0", "Q", "tau">>)
        ELSE IF f0 = 0
        THEN FTResult("ZeroDivisionError", FALSE, 0, 0,
                      <<"M_kg", "Momega", "omega", "f0", "Q">>)
        ELSE FTResult("none", FALSE, f0, tau,
                      <<"M_kg", "Momega", "omega", "f0", "Q", "tau">>)

\* a freq_tau whose else branch falls back to the default mode "22"
freq_tau_default22(M_solar, chi, mode) ==
    freq_tau_fit(M_solar, chi,
                 ModeCoeffs(IF mode \in SupportedModes THEN mode ELSE "22"))

\* freq_tau(M_solar, chi, mode)
freq_tau(M_solar, chi, mode) ==
    IF mode \notin SupportedModes
    THEN FTResult("ValueError", FALSE, 0, 0, <<"M_kg">>)
    ELSE freq_tau_fit(M_solar, chi, ModeCoeffs(mode))

-----------------------------------------------------------------------------
(* Parameter vectors.  A unit-cube coordinate is k/UDen, k in 0..UDen; a    *)
(* parameter (a component of theta, a prior bound) is an exact fraction     *)
(* n/ThetaDen of its unit, so that 0.5*x, 1.5*x and u*(max - min) of the     *)
(* prior transforms are exact, as they are at these points in doubles.      *)

UDen == 2

ThetaDen == 2 * UDen

\* a value x of some unit as a parameter
ToTheta(x) == x * ThetaDen

\* u * x for the unit-cube coordinate u = k/UDen
UMul(k, x) == RoundDiv(k * x, UDen)

\* a * b / c rounded to nearest, c > 0, without forming a * b
MulDiv(a, b, c) == (a \div c) * b + RoundDiv((a % c) * b, c)

RECURSIVE SumUpTo(_, _)
\* s[1] + ... + s[n]
SumUpTo(s, n) == IF n = 0 THEN 0 ELSE s[n] + SumUpTo(s, n - 1)

\* np.sum of an array
Sum(s) == SumUpTo(s, Len(s))

-----------------------------------------------------------------------------
(* scripts/model_gr.py: planck_taper and damped_sine *)

\* eps = 0.002, the default of planck_taper, in 1/1000
EpsMilli == 2

\* 1 / (exp(1/x + 1/(1-x)) + 1) at x = j/10, in 1/1000.  At x = 0 and x = 1
\* the float division by zero gives inf, exp(inf) = inf and 1/(inf + 1) = 0.
TaperTable == <<0, 0, 2, 8, 15, 18, 15, 8, 2, 0, 0>>

\* one sample of the window: ti, tf and the result's t0 are parameters
\* (n/ThetaDen ticks), tk a sample time in ticks; tf > ti
TaperSample(tk, ti, tf) ==
    IF ToTheta(tk) < ti THEN 0
    ELSE IF ToTheta(tk) > tf THEN 1000
    ELSE TaperTable[RoundDiv(10 * (ToTheta(tk) - ti), tf - ti) + 1]

\* planck_taper(t, t0, eps = 0.002): t a time axis in ticks with
\* t[-1] > t[0], the window in 1/1000
planck_taper(t, t0) ==
    LET dt == RoundDiv(EpsMilli * ToTheta(t[Len(t)] - t[1]), 1000)
    IN  IF \A i \in 1..Len(t) : ~(ToTheta(t[i]) >= t0)
        THEN [i \in 1..Len(t) |-> 0]
        ELSE [i \in 1..Len(t) |-> TaperSample(t[i], t0, t0 + dt)]

\* np.exp(-x) at x = q/4, in 1/1000 (0 beyond the table)
ExpTable ==
    <<1000, 779, 607, 472, 368, 287, 223, 174, 135, 105, 82,
      64, 50, 39, 30, 24, 18, 14, 11, 9, 7, 5,
      4, 3, 2, 2, 2, 1, 1, 1, 1>>

\* np.exp(-tt/tau), tt >= 0 and tau > 0 in the same unit
ExpNeg(tt, tau) ==
    LET q == RoundDiv(4 * tt, tau)
    IN  IF q < Len(ExpTable) THEN ExpTable[q + 1] ELSE 0

\* np.sin at k eighths of a turn, in 1/1000
SinTable == <<0, 707, 1000, 707, 0, -707, -1000, -707>>

\* np.sin(2*pi*f0*tt + phi): f0 (0.1 Hz), tt (ticks) and phi (1/1000 pi) as
\* parameters.  2*f0*tt is f0*tt/500 thousandths of pi; an eighth of a turn
\* is 250 of them.
SinArg(f0, tt, phi) ==
    LET angle == MulDiv(f0, tt, 500 * ThetaDen) + phi
    IN  SinTable[(RoundDiv(angle, 250 * ThetaDen) % 8) + 1]

\* damped_sine(t, A, f0, tau, phi, t0): t in ticks, the others parameters
\* (tau > 0); the signal in 1/1000
damped_sine(t, A, f0, tau, phi, t0) ==
    LET mask == [i \in 1..Len(t) |-> ToTheta(t[i]) >= t0]
        s == [i \in 1..Len(t) |->
                IF mask[i]
                THEN FMul3(FMul3(A, ExpNeg(ToTheta(t[i]) - t0, tau)),
                           SinArg(f0, ToTheta(t[i]) - t0, phi))
                ELSE 0]
        w == planck_taper(t, t0)
    IN  IF \A i \in 1..Len(t) : ~mask[i]
        THEN [i \in 1..Len(t) |-> 0]
        ELSE [i \in 1..Len(t) |-> RoundDiv(FMul3(s[i], w[i]), ThetaDen)]

-----------------------------------------------------------------------------
(* scripts/model_edr_full.py and scripts/model_edr.py: shifts and single modes *)

\* x_gr * (1.0 + d): x_gr in its unit, d a parameter in 1/1000; the result
\* a parameter
Shift(x_gr, d) == RoundDiv(x_gr * (ToTheta(1000) + d), 1000)

\* a shift that applies the frequency deviation to the decay time too
edr_shift_freq_tau_same(f_gr, tau_gr, d_om, d_tau) ==
    [f |-> Shift(f_gr, d_om), tau |-> Shift(tau_gr, d_om)]

\* model_edr_full.edr_shift_freq_tau(f_gr, tau_gr, d_om, d_tau)
edr_shift_freq_tau(f_gr, tau_gr, d_om, d_tau) ==
    [f |-> Shift(f_gr, d_om), tau |-> Shift(tau_gr, d_tau)]

\* model_edr.edr_f0(f0_gr, delta_omega_ratio)
edr_f0(f0_gr, delta_omega_ratio) == Shift(f0_gr, delta_omega_ratio)

\* model_edr.edr_tau(tau_gr, delta_tau_ratio)
edr_tau(tau_gr, delta_tau_ratio) == Shift(tau_gr, delta_tau_ratio)

\* a single mode computed at every sample, whatever its side of t0
damped_sine_mode_unmasked(t, A, f0, tau, phi, t0) ==
    [i \in 1..Len(t) |->
        RoundDiv(FMul3(FMul3(A, ExpNeg(Abs(ToTheta(t[i]) - t0), tau)),
                       SinArg(f0, Abs(ToTheta(t[i]) - t0), phi)),
                 ThetaDen)]

\* model_edr_full.damped_sine_mode(t, A, f0, tau, phi, t0): as damped_sine,
\* without the onset window
damped_sine_mode(t, A, f0, tau, phi, t0) ==
    LET mask == [i \in 1..Len(t) |-> ToTheta(t[i]) >= t0]
    IN  [i \in 1..Len(t) |->
            IF mask[i]
            THEN RoundDiv(FMul3(FMul3(A, ExpNeg(ToTheta(t[i]) - t0, tau)),
                                SinArg(f0, ToTheta(t[i]) - t0, phi)),
                          ThetaDen)
            ELSE 0]

\* model_edr.edr_damped_sine(t, A, f0_gr, tau_gr, phi, t0,
\*                           delta_omega_ratio, delta_tau_ratio)
edr_damped_sine(t, A, f0_gr, tau_gr, phi, t0, delta_omega_ratio, delta_tau_ratio) ==
    damped_sine(t, A, edr_f0(f0_gr, delta_omega_ratio),
                edr_tau(tau_gr, delta_tau_ratio), phi, t0)

-----------------------------------------------------------------------------
(* The multi-mode builders of model_gr.py, model_edr_full.py, model_edr.py *)

\* np.arange(0, duration, 1.0/fs): duration in ticks, fs in Hz
Arange(fs, duration) ==
    LET step == 100000 \div fs
    IN  [i \in 1..((duration + step - 1) \div step) |-> (i - 1) * step]

\* What a builder ends with: an exception of freq_tau or the summed signal;
\* calls lists the modes freq_tau was evaluated for, in order.
Built(raised, t, total, calls) ==
    [raised |-> raised, t |-> t, total |-> total, calls |-> calls]

\* The common shape of the three builders.  Mode 22 is always computed;
\* A33 != 0 and A21 != 0 guard the other two, whose place is taken by the
\* scalar 0.0 otherwise.  s22, s33 and s21 are the per-mode signals, used
\* only where freq_tau returned.
SumModes(t, M_solar, chi, A33, A21, s22, s33, s21) ==
    LET g22 == freq_tau(M_solar, chi, "22")
        g33 == freq_tau(M_solar, chi, "33")
        g21 == freq_tau(M_solar, chi, "21")
        do33 == A33 # 0
        do21 == A21 # 0
        calls == <<"22">> \o (IF do33 THEN <<"33">> ELSE <<>>)
                          \o (IF do21 THEN <<"21">> ELSE <<>>)
    IN  IF g22.raised # "none" THEN Built(g22.raised, t, <<>>, <<"22">>)
        ELSE IF do33 /\ g33.raised # "none"
        THEN Built(g33.raised, t, <<>>, <<"22", "33">>)
        ELSE IF do21 /\ g21.raised # "none" THEN Built(g21.raised, t, <<>>, calls)
        ELSE Built("none", t,
                   [i \in 1..Len(t) |-> s22[i] + (IF do33 THEN s33[i] ELSE 0)
                                               + (IF do21 THEN s21[i] ELSE 0)],
                   calls)

\* the per-mode signal of gr_multimode_template
gr_mode(t, M_solar, chi, mode, A, phi, t0) ==
    LET g == freq_tau(M_solar, chi, mode)
    IN  damped_sine(t, A, ToTheta(g.f0), ToTheta(g.tau), phi, t0)

\* a builder that gives the 21 mode the frequency and decay of the 22 mode
gr_multimode_template_21as22(fs, duration, M_solar, chi, t0, A22, A33, A21, phi22, phi33, phi21) ==
    LET t == Arange(fs, duration)
    IN  SumModes(t, M_solar, chi, A33, A21,
                 gr_mode(t, M_solar, chi, "22", A22, phi22, t0),
                 gr_mode(t, M_solar, chi, "33", A33, phi33, t0),
                 gr_mode(t, M_solar, chi, "22", A21, phi21, t0))

\* model_gr.gr_multimode_template(fs, duration, M_solar, chi, t0, A22, A33,
\*                                A21, phi22, phi33, phi21)
gr_multimode_template(fs, duration, M_solar, chi, t0, A22, A33, A21, phi22, phi33, phi21) ==
    LET t == Arange(fs, duration)
    IN  SumModes(t, M_solar, chi, A33, A21,
                 gr_mode(t, M_solar, chi, "22", A22, phi22, t0),
                 gr_mode(t, M_solar, chi, "33", A33, phi33, t0),
                 gr_mode(t, M_solar, chi, "21", A21, phi21, t0))

\* the per-mode signal of edr_multimode_full
edr_full_mode(t, Mrem, chi, mode, A, d_om, d_tau, phi, t0) ==
    LET g  == freq_tau(Mrem, chi, mode)
        sh == edr_shift_freq_tau(g.f0, g.tau, d_om, d_tau)
    IN  damped_sine_mode(t, A, sh.f, sh.tau, phi, t0)

\* model_edr_full.edr_multimode_full(t, Mrem, chi, A22, A33, A21, d_om22,
\*     d_tau22, d_om33, d_tau33, d_om21, d_tau21, phi22, phi33, phi21, t0)
edr_multimode_full(t, Mrem, chi, A22, A33, A21, d_om22, d_tau22, d_om33, d_tau33, d_om21, d_tau21, phi22, phi33, phi21, t0) ==
    SumModes(t, Mrem, chi, A33, A21,
             edr_full_mode(t, Mrem, chi, "22", A22, d_om22, d_tau22, phi22, t0),
             edr_full_mode(t, Mrem, chi, "33", A33, d_om33, d_tau33, phi33, t0),
             edr_full_mode(t, Mrem, chi, "21", A21, d_om21, d_tau21, phi21, t0))

\* the per-mode signal of edr_multimode_template
edr_mode(t, M_solar, chi, mode, A, phi, t0, delta_omega_ratio, delta_tau_ratio) ==
    LET g == freq_tau(M_solar, chi, mode)
    IN  edr_damped_sine(t, A, g.f0, g.tau, phi, t0, delta_omega_ratio, delta_tau_ratio)

\* model_edr.edr_multimode_template(fs, duration, M_solar, chi,
\*     delta_omega_ratio, delta_tau_ratio, t0, A22, A33, A21, phi22, phi33,
\*     phi21)
edr_multimode_template(fs, duration, M_solar, chi, delta_omega_ratio, delta_tau_ratio, t0, A22, A33, A21, phi22, phi33, phi21) ==
    LET t == Arange(fs, duration)
    IN  SumModes(t, M_solar, chi, A33, A21,
                 edr_mode(t, M_solar, chi, "22", A22, phi22, t0, delta_omega_ratio, delta_tau_ratio),
                 edr_mode(t, M_solar, chi, "33", A33, phi33, t0, delta_omega_ratio, delta_tau_ratio),
                 edr_mode(t, M_solar, chi, "21", A21, phi21, t0, delta_omega_ratio, delta_tau_ratio))

-----------------------------------------------------------------------------
(* scripts/bayes_compare_edr.py: the two models *)

\* what make_gr_model / make_edr_model end with: an exception of freq_tau,
\* or the variables the two closures capture (env)
NoEnv == [kind |-> "none"]

\* make_gr_model(t, Mrem, chi), lines 53-60 and 79
make_gr_model(t, Mrem, chi) ==
    LET th == freq_tau(Mrem, chi, "22")
    IN  IF th.raised # "none" THEN [raised |-> th.raised, env |-> NoEnv]
        ELSE [raised |-> "none",
              env |-> [kind |-> "gr", t |-> t, complex |-> th.complex,
                       A_min |-> ToTheta(0), A_max |-> ToTheta(2000),
                       f_min |-> ToTheta(th.f0) \div 2,
                       f_max |-> 3 * (ToTheta(th.f0) \div 2),
                       tau_min |-> ToTheta(th.tau) \div 2,
                       tau_max |-> 3 * (ToTheta(th.tau) \div 2),
                       t0_min |-> ToTheta(0), t0_max |-> ToTheta(5000)]]

\* a transform whose phase covers only the lower half of its range
prior_values_gr_halfphase(env, u) ==
    [A   |-> env.A_min + UMul(u[1], env.A_max - env.A_min),
     f0  |-> env.f_min + UMul(u[2], env.f_max - env.f_min),
     tau |-> env.tau_min + UMul(u[3], env.tau_max - env.tau_min),
     phi |-> (-ToTheta(1000)) + UMul(u[4], ToTheta(1000)),
     t0  |-> env.t0_min + UMul(u[5], env.t0_max - env.t0_min)]

\* a transform whose amplitude depends on the series loaded last
prior_values_gr_global(env, u) ==
    [A   |-> env.A_min + UMul(u[1], env.A_max - env.A_min) + data.owner,
     f0  |-> env.f_min + UMul(u[2], env.f_max - env.f_min),
     tau |-> env.tau_min + UMul(u[3], env.tau_max - env.tau_min),
     phi |-> (-ToTheta(1000)) + UMul(u[4], 2 * ToTheta(1000)),
     t0  |-> env.t0_min + UMul(u[5], env.t0_max - env.t0_min)]

\* the body of make_gr_model.prior_transform, lines 66-70: the five values
\* it computes from u
prior_values_gr(env, u) ==
    [A   |-> env.A_min + UMul(u[1], env.A_max - env.A_min),
     f0  |-> env.f_min + UMul(u[2], env.f_max - env.f_min),
     tau |-> env.tau_min + UMul(u[3], env.tau_max - env.tau_min),
     phi |-> (-ToTheta(1000)) + UMul(u[4], 2 * ToTheta(1000)),
     t0  |-> env.t0_min + UMul(u[5], env.t0_max - env.t0_min)]

\* line 71: the array prior_transform returns
pack_gr(p) == <<p.A, p.f0, p.tau, p.phi, p.t0>>

\* make_gr_model.prior_transform(u)
prior_transform_gr(env, u) == pack_gr(prior_values_gr(env, u))

\* line 74: the tuple loglike unpacks theta into
unpack_gr(theta) ==
    [A |-> theta[1], f0 |-> theta[2], tau |-> theta[3], phi |-> theta[4],
     t0 |-> theta[5]]

\* lines 75: the template of the baseline model
template_gr(env, p) == damped_sine(env.t, p.A, p.f0, p.tau, p.phi, p.t0)

\* lines 76-77 and 162-163: resid = data - h against the module-level data,
\* then -0.5 * np.sum(resid * resid), in 1e-7
residual_loglike(h) ==
    IF data.owner = 0 THEN [raised |-> "NameError", value |-> 0]
    ELSE IF Len(data.value) # Len(h) THEN [raised |-> "ValueError", value |-> 0]
    ELSE LET resid == [i \in 1..Len(h) |-> data.value[i] - h[i]]
         IN  [raised |-> "none",
              value |-> -5 * Sum([i \in 1..Len(h) |-> resid[i] * resid[i]])]

\* make_gr_model.loglike(theta)
loglike_gr(env, theta) ==
    IF Len(theta) # 5 THEN [raised |-> "ValueError", value |-> 0]
    ELSE residual_loglike(template_gr(env, unpack_gr(theta)))

\* a model whose deviation ratios go down to -1
make_edr_model_wide(t, Mrem, chi) ==
    LET th22 == freq_tau(Mrem, chi, "22")
        th33 == freq_tau(Mrem, chi, "33")
        th21 == freq_tau(Mrem, chi, "21")
    IN  IF th22.raised # "none" THEN [raised |-> th22.raised, env |-> NoEnv]
        ELSE IF th33.raised # "none" THEN [raised |-> th33.raised, env |-> NoEnv]
        ELSE IF th21.raised # "none" THEN [raised |-> th21.raised, env |-> NoEnv]
        ELSE [raised |-> "none",
              env |-> [kind |-> "edr", t |-> t,
                       complex |-> th22.complex \/ th33.complex \/ th21.complex,
                       f22_gr |-> th22.f0, tau22_gr |-> th22.tau,
                       f33_gr |-> th33.f0, tau33_gr |-> th33.tau,
                       f21_gr |-> th21.f0, tau21_gr |-> th21.tau,
                       A_min |-> ToTheta(0), A_max |-> ToTheta(1000),
                       d_min |-> ToTheta(-1000), d_max |-> ToTheta(500),
                       t0_min |-> ToTheta(0), t0_max |-> ToTheta(5000)]]

\* make_edr_model(t, Mrem, chi), lines 93-102 and 165
make_edr_model(t, Mrem, chi) ==
    LET th22 == freq_tau(Mrem, chi, "22")
        th33 == freq_tau(Mrem, chi, "33")
        th21 == freq_tau(Mrem, chi, "21")
    IN  IF th22.raised # "none" THEN [raised |-> th22.raised, env |-> NoEnv]
        ELSE IF th33.raised # "none" THEN [raised |-> th33.raised, env |-> NoEnv]
        ELSE IF th21.raised # "none" THEN [raised |-> th21.raised, env |-> NoEnv]
        ELSE [raised |-> "none",
              env |-> [kind |-> "edr", t |-> t,
                       complex |-> th22.complex \/ th33.complex \/ th21.complex,
                       f22_gr |-> th22.f0, tau22_gr |-> th22.tau,
                       f33_gr |-> th33.f0, tau33_gr |-> th33.tau,
                       f21_gr |-> th21.f0, tau21_gr |-> th21.tau,
                       A_min |-> ToTheta(0), A_max |-> ToTheta(1000),
                       d_min |-> ToTheta(-500), d_max |-> ToTheta(500),
                       t0_min |-> ToTheta(0), t0_max |-> ToTheta(5000)]]

\* the body of make_edr_model.prior_transform, lines 108-125
prior_values_edr(env, u) ==
    [A22 |-> env.A_min + UMul(u[1], env.A_max - env.A_min),
     A33 |-> env.A_min + UMul(u[2], env.A_max - env.A_min),
     A21 |-> env.A_min + UMul(u[3], env.A_max - env.A_min),
     d_om22  |-> env.d_min + UMul(u[4], env.d_max - env.d_min),
     d_tau22 |-> env.d_min + UMul(u[5], env.d_max - env.d_min),
     d_om33  |-> env.d_min + UMul(u[6], env.d_max - env.d_min),
     d_tau33 |-> env.d_min + UMul(u[7], env.d_max - env.d_min),
     d_om21  |-> env.d_min + UMul(u[8], env.d_max - env.d_min),
     d_tau21 |-> env.d_min + UMul(u[9], env.d_max - env.d_min),
     phi22 |-> (-ToTheta(1000)) + UMul(u[10], 2 * ToTheta(1000)),
     phi33 |-> (-ToTheta(1000)) + UMul(u[11], 2 * ToTheta(1000)),
     phi21 |-> (-ToTheta(1000)) + UMul(u[12], 2 * ToTheta(1000)),
     t0 |-> env.t0_min + UMul(u[13], env.t0_max - env.t0_min)]

\* an array with d_om22 and d_tau22 in each other's place
pack_edr_swapped(p) ==
    <<p.A22, p.A33, p.A21, p.d_tau22, p.d_om22, p.d_om33, p.d_tau33,
      p.d_om21, p.d_tau21, p.phi22, p.phi33, p.phi21, p.t0>>

\* lines 127-134: the array prior_transform returns
pack_edr(p) ==
    <<p.A22, p.A33, p.A21, p.d_om22, p.d_tau22, p.d_om33, p.d_tau33,
      p.d_om21, p.d_tau21, p.phi22, p.phi33, p.phi21, p.t0>>

\* make_edr_model.prior_transform(u)
prior_transform_edr(env, u) == pack_edr(prior_values_edr(env, u))

\* lines 137-144: the tuple loglike unpacks theta into
unpack_edr(theta) ==
    [A22 |-> theta[1], A33 |-> theta[2], A21 |-> theta[3],
     d_om22 |-> theta[4], d_tau22 |-> theta[5],
     d_om33 |-> theta[6], d_tau33 |-> theta[7],
     d_om21 |-> theta[8], d_tau21 |-> theta[9],
     phi22 |-> theta[10], phi33 |-> theta[11], phi21 |-> theta[12],
     t0 |-> theta[13]]

\* lines 147-154: x_gr * (1.0 + d), x_gr in its unit, d a parameter in
\* 1/1000; the result a parameter
shifted(x_gr, d) == RoundDiv(x_gr * (ToTheta(1000) + d), 1000)

\* a template without the 21 mode
template_edr_two_modes(env, p) ==
    LET h22 == damped_sine(env.t, p.A22, shifted(env.f22_gr, p.d_om22),
                           shifted(env.tau22_gr, p.d_tau22), p.phi22, p.t0)
        h33 == damped_sine(env.t, p.A33, shifted(env.f33_gr, p.d_om33),
                           shifted(env.tau33_gr, p.d_tau33), p.phi33, p.t0)
    IN  [i \in 1..Len(env.t) |-> h22[i] + h33[i]]

\* lines 147-160: the template of the extended model
template_edr(env, p) ==
    LET h22 == damped_sine(env.t, p.A22, shifted(env.f22_gr, p.d_om22),
                           shifted(env.tau22_gr, p.d_tau22), p.phi22, p.t0)
        h33 == damped_sine(env.t, p.A33, shifted(env.f33_gr, p.d_om33),
                           shifted(env.tau33_gr, p.d_tau33), p.phi33, p.t0)
        h21 == damped_sine(env.t, p.A21, shifted(env.f21_gr, p.d_om21),
                           shifted(env.tau21_gr, p.d_tau21), p.phi21, p.t0)
    IN  [i \in 1..Len(env.t) |-> h22[i] + h33[i] + h21[i]]

\* make_edr_model.loglike(theta)
loglike_edr(env, theta) ==
    IF Len(theta) # 13 THEN [raised |-> "ValueError", value |-> 0]
    ELSE residual_loglike(template_edr(env, unpack_edr(theta)))

-----------------------------------------------------------------------------
(* scripts/bayes_compare_edr.py: evidences and the Bayes factor *)

\* A log-evidence is the double n + k * 2^-60: an integer n, or a multiple k
\* of 2^-60 next to zero (n # 0 => k = 0).  A double next to an integer n # 0
\* cannot hold the 2^-60 part, and exp of anything within 2^-54 of zero is
\* exactly 1.0.
Z(n, k) == [n |-> n, k |-> k]

\* a - b of two such doubles, rounded to nearest
FSub(a, b) ==
    LET n == a.n - b.n
    IN  Z(n, IF n = 0 THEN a.k - b.k ELSE 0)

\* x > 0 and x <= 0 of such a double
FPositive(x) == x.n > 0 \/ (x.n = 0 /\ x.k > 0)

\* np.exp overflows to inf above 709.78 and underflows to 0.0 below -745.13
ExpMaxArg == 709
ExpMinArg == -745

\* np.exp(x): inf, 0.0 or the finite double nearest to e^ln
NpExp(x) ==
    IF x.n > ExpMaxArg THEN [kind |-> "inf", ln |-> 0]
    ELSE IF x.n < ExpMinArg THEN [kind |-> "zero", ln |-> 0]
    ELSE [kind |-> "finite", ln |-> x.n]

\* BF > 1
GreaterThanOne(BF) == BF.kind = "inf" \/ (BF.kind = "finite" /\ BF.ln > 0)

\* a difference taken the other way round
dlogZ_of_reversed(logZ_gr, logZ_edr) == FSub(logZ_gr, logZ_edr)

\* line 203
dlogZ_of(logZ_gr, logZ_edr) == FSub(logZ_edr, logZ_gr)

\* line 204
BF_of(dlogZ) == NpExp(dlogZ)

\* a comparison that favours the extended model on a tie
favored_on_tie_edr(BF) ==
    IF (BF.kind = "finite" /\ BF.ln < 0) \/ BF.kind = "zero" THEN "GR" ELSE "EDR"

\* line 206
favored_of(BF) == IF GreaterThanOne(BF) THEN "EDR" ELSE "GR"

-----------------------------------------------------------------------------
(* scripts/bayes_compare_edr.py: the catalog and the processed files *)

\* DEFAULT_EVENTS, in order: Mrem in 0.1 solar masses, chi in 1/100
DEFAULT_EVENTS ==
    << [event |-> "GW150914", Mrem |-> 680,  chi |-> 67],
       [event |-> "GW151226", Mrem |-> 205,  chi |-> 74],
       [event |-> "GW170104", Mrem |-> 490,  chi |-> 66],
       [event |-> "GW170608", Mrem |-> 190,  chi |-> 74],
       [event |-> "GW170814", Mrem |-> 545,  chi |-> 74],
       [event |-> "GW170729", Mrem |-> 800,  chi |-> 81],
       [event |-> "GW170823", Mrem |-> 600,  chi |-> 72],
       [event |-> "GW190412", Mrem |-> 340,  chi |-> 67],
       [event |-> "GW190521", Mrem |-> 1420, chi |-> 72],
       [event |-> "GW190814", Mrem |-> 250,  chi |-> 91] >>

DETECTORS == <<"H1", "L1">>

\* The (event, detector) pairs in the order of main's two loops; the model
\* runs the first NumPairs of them.
NumPairs == 2

PairEvent(p) == DEFAULT_EVENTS[((p - 1) \div Len(DETECTORS)) + 1]

PairDetector(p) == DETECTORS[((p - 1) % Len(DETECTORS)) + 1]

\* samples per processed file
NSamples == 3

\* ts.times.value of the pair's processed file, in ticks: 5 ms apart, from
\* 0 or from one tick after it
FileTimes(p) == [i \in 1..NSamples |-> (p % 2) + (i - 1) * 500]

\* ts.value of the pair's processed file, in 1/1000: different in every file
FileValues(p) == [i \in 1..NSamples |-> (((3 * p + 5 * i) % 7) - 3) * 100]

\* the greatest multiple of 2^-60 below zero among the evidences
MaxTiny == 2

\* the log-evidences run_nested may return (never positive: the likelihood
\* is at most 1)
LogZValues ==
    {Z(n, 0) : n \in {-1600, -100, -95}} \cup {Z(0, -k) : k \in 0..MaxTiny}

\* the errors res.logzerr[-1] that come with them, in 1/10
LogZErrs == {1, 2}

\* what run_nested returns (lines 182-184), without the results object
NestedResult(z, e) == [logZ |-> z, logZ_err |-> e]

\* sampler evaluations per run_nested call
MaxEvals == 2

\* The unit-cube points the sampler proposes: the two corners, the
\* staircases k, k+1, ... (mod UDen + 1), and these with the last
\* coordinate (the onset) at 0.
Stair(n, off) == [i \in 1..n |-> (i + off) % (UDen + 1)]

OnsetZero(u) == [u EXCEPT ![Len(u)] = 0]

UPoints(n) ==
    {[i \in 1..n |-> 0], [i \in 1..n |-> UDen]}
    \cup {Stair(n, off) : off \in 0..UDen}
    \cup {OnsetZero(Stair(n, off)) : off \in 0..UDen}

-----------------------------------------------------------------------------
(* scripts/bayes_compare_edr.py: bayes_compare and main *)

Threads == {1, 2}

NoRecord == [event |-> "none"]

NoEval == [u |-> <<>>]

NoSampler == [model |-> "none", ndim |-> 0, evals |-> 0, last |-> NoEval]

NoFrame == [pair |-> 0, t |-> <<>>, gr |-> NoEnv, edr |-> NoEnv,
            logZ_gr |-> Z(0, 0), logZerr_gr |-> 0,
            logZ_edr |-> Z(0, 0), logZerr_edr |-> 0, out |-> NoRecord]

\* what main has printed for a pair, and the step of bayes_compare whose
\* exception it printed (the step is not part of the output)
NoReport == [printed |-> <<>>, stage |-> "none"]

\* str(e) of the exceptions of outside libraries (gwpy, h5py, dynesty,
\* numpy, the interpreter): any text, the empty one of MemoryError() included
LibraryTexts == {"", "invalid value"}

\* str(e) of the exceptions the scripts or the interpreter raise by name
TextOf(raised) ==
    CASE raised = "FileNotFoundError" -> "No existe procesado"
      [] raised = "ZeroDivisionError" -> "0.0 cannot be raised to a negative power"
      [] raised = "NameError" -> "name 'data' is not defined"
      [] raised = "ValueError" -> "operands could not be broadcast together"

\* a handler that lets the exception end the batch
HandleAbort(th, stage, text) ==
    /\ report' = [report EXCEPT ![frame[th].pair] =
                    [printed |-> <<"ERROR en", PairEvent(frame[th].pair).event,
                                   PairDetector(frame[th].pair), text>>,
                     stage |-> stage]]
    /\ frame' = [frame EXCEPT ![th] = NoFrame]
    /\ sampler' = [sampler EXCEPT ![th] = NoSampler]
    /\ pc' = [pc EXCEPT ![th] = "crashed"]

\* An exception leaves bayes_compare.  Under "all" the except clause of
\* main, lines 272-273, prints the pair and str(e) and the loop goes on; a
\* single analysis (line 266) ends with the traceback.
Handle(th, stage, text) ==
    /\ report' = [report EXCEPT ![frame[th].pair] =
                    [printed |-> <<"ERROR en", PairEvent(frame[th].pair).event,
                                   PairDetector(frame[th].pair), text>>,
                     stage |-> stage]]
    /\ frame' = [frame EXCEPT ![th] = NoFrame]
    /\ sampler' = [sampler EXCEPT ![th] = NoSampler]
    /\ pc' = [pc EXCEPT ![th] = IF argv = "all" THEN "main" ELSE "crashed"]

\* lines 268-271: the next pair of the loops, or the end of main
MainNext(th) ==
    /\ pc[th] = "main"
    /\ IF todo[th] = <<>>
       THEN /\ pc' = [pc EXCEPT ![th] = "done"]
            /\ UNCHANGED <<todo, frame>>
       ELSE /\ pc' = [pc EXCEPT ![th] = "load"]
            /\ frame' = [frame EXCEPT ![th] = [NoFrame EXCEPT !.pair = Head(todo[th])]]
            /\ todo' = [todo EXCEPT ![th] = Tail(todo[th])]
    /\ UNCHANGED <<call, data, sampler, out_files, report, argv, evidences>>

\* lines 191-192 and 41-44: the processed file does not exist
LoadMissing(th) ==
    /\ pc[th] = "load"
    /\ Handle(th, "load_processed", TextOf("FileNotFoundError"))
    /\ UNCHANGED <<call, todo, data, out_files, argv, evidences>>

\* lines 191-192 and 45: the file exists and TimeSeries.read raises
LoadUnreadable(th) ==
    /\ pc[th] = "load"
    /\ \E text \in LibraryTexts : Handle(th, "load_processed", text)
    /\ UNCHANGED <<call, todo, data, out_files, argv, evidences>>

\* a load that assigns the module-level data only while it is unset
LoadOkFirstOnly(th) ==
    /\ pc[th] = "load"
    /\ data' = IF data.owner = 0
               THEN [owner |-> frame[th].pair, value |-> FileValues(frame[th].pair)]
               ELSE data
    /\ frame' = [frame EXCEPT ![th].t = FileTimes(frame[th].pair)]
    /\ pc' = [pc EXCEPT ![th] = "make_gr"]
    /\ UNCHANGED <<call, todo, sampler, out_files, report, argv, evidences>>

\* lines 191-192 and 45-46: global data, and the local t
LoadOk(th) ==
    /\ pc[th] = "load"
    /\ data' = [owner |-> frame[th].pair, value |-> FileValues(frame[th].pair)]
    /\ frame' = [frame EXCEPT ![th].t = FileTimes(frame[th].pair)]
    /\ pc' = [pc EXCEPT ![th] = "make_gr"]
    /\ UNCHANGED <<call, todo, sampler, out_files, report, argv, evidences>>

\* line 195, and the sampler of line 196 (run_nested, lines 172-179)
MakeGR(th) ==
    /\ pc[th] = "make_gr"
    /\ LET ev == PairEvent(frame[th].pair)
           m  == make_gr_model(frame[th].t, ev.Mrem, ev.chi)
       IN  IF m.raised # "none"
           THEN Handle(th, "freq_tau", TextOf(m.raised)) /\ UNCHANGED <<call, todo, data, out_files, argv, evidences>>
           ELSE /\ frame' = [frame EXCEPT ![th].gr = m.env]
                /\ sampler' = [sampler EXCEPT ![th] =
                                 [NoSampler EXCEPT !.model = "gr", !.ndim = 5]]
                /\ pc' = [pc EXCEPT ![th] = "run_gr"]
                /\ UNCHANGED <<call, todo, data, out_files, report, argv, evidences>>

\* line 199, and the sampler of line 200
MakeEDR(th) ==
    /\ pc[th] = "make_edr"
    /\ LET ev == PairEvent(frame[th].pair)
           m  == make_edr_model(frame[th].t, ev.Mrem, ev.chi)
       IN  IF m.raised # "none"
           THEN Handle(th, "freq_tau", TextOf(m.raised)) /\ UNCHANGED <<call, todo, data, out_files, argv, evidences>>
           ELSE /\ frame' = [frame EXCEPT ![th].edr = m.env]
                /\ sampler' = [sampler EXCEPT ![th] =
                                 [NoSampler EXCEPT !.model = "edr", !.ndim = 13]]
                /\ pc' = [pc EXCEPT ![th] = "run_edr"]
                /\ UNCHANGED <<call, todo, data, out_files, report, argv, evidences>>

\* One evaluation by the sampler (dynesty, inside lines 172-180): a point u
\* of the unit cube of dimension ndim, theta = prior_transform(u), then
\* loglike(theta).  last keeps what the evaluation computed, and whose
\* series the module-level data held when loglike read it.
Evaluate(th) ==
    /\ pc[th] \in {"run_gr", "run_edr"}
    /\ sampler[th].evals < MaxEvals
    /\ \E u \in UPoints(sampler[th].ndim) :
         LET gr    == sampler[th].model = "gr"
             env   == IF gr THEN frame[th].gr ELSE frame[th].edr
             theta == IF gr THEN prior_transform_gr(env, u)
                            ELSE prior_transform_edr(env, u)
             ll    == IF gr THEN loglike_gr(env, theta) ELSE loglike_edr(env, theta)
         IN  IF ll.raised # "none"
             THEN Handle(th, "run_nested", TextOf(ll.raised)) /\ UNCHANGED <<call, todo, data, out_files, argv, evidences>>
             ELSE /\ sampler' = [sampler EXCEPT
                        ![th].evals = @ + 1,
                        ![th].last = [u |-> u, theta |-> theta, value |-> ll.value,
                                      read |-> data.owner]]
                  /\ UNCHANGED <<call, todo, pc, data, frame, out_files, report, argv, evidences>>

\* a bayes_compare that goes on to the comparison after its first integration
NestedReturnOnce(th) ==
    /\ pc[th] \in {"run_gr", "run_edr"}
    /\ sampler[th].evals >= 1
    /\ \E r \in evidences :
         IF pc[th] = "run_gr"
         THEN /\ frame' = [frame EXCEPT ![th].logZ_gr = r.logZ,
                                         ![th].logZerr_gr = r.logZ_err]
              /\ pc' = [pc EXCEPT ![th] = "compare"]
         ELSE /\ frame' = [frame EXCEPT ![th].logZ_edr = r.logZ,
                                         ![th].logZerr_edr = r.logZ_err]
              /\ pc' = [pc EXCEPT ![th] = "compare"]
    /\ sampler' = [sampler EXCEPT ![th] = NoSampler]
    /\ UNCHANGED <<call, todo, data, out_files, report, argv, evidences>>

\* lines 180-184: the sampler ends and run_nested returns logZ
NestedReturn(th) ==
    /\ pc[th] \in {"run_gr", "run_edr"}
    /\ sampler[th].evals >= 1
    /\ \E r \in evidences :
         IF pc[th] = "run_gr"
         THEN /\ frame' = [frame EXCEPT ![th].logZ_gr = r.logZ,
                                         ![th].logZerr_gr = r.logZ_err]
              /\ pc' = [pc EXCEPT ![th] = "make_edr"]
         ELSE /\ frame' = [frame EXCEPT ![th].logZ_edr = r.logZ,
                                         ![th].logZerr_edr = r.logZ_err]
              /\ pc' = [pc EXCEPT ![th] = "compare"]
    /\ sampler' = [sampler EXCEPT ![th] = NoSampler]
    /\ UNCHANGED <<call, todo, data, out_files, report, argv, evidences>>

\* lines 172-180: the sampler raises
NestedRaise(th) ==
    /\ pc[th] \in {"run_gr", "run_edr"}
    /\ \E text \in LibraryTexts : Handle(th, "run_nested", text)
    /\ UNCHANGED <<call, todo, data, out_files, argv, evidences>>

\* a comparison that names the Bayes factor "BF" in its record
CompareBF(th) ==
    /\ pc[th] = "compare"
    /\ LET f     == frame[th]
           ev    == PairEvent(f.pair)
           dlogZ == dlogZ_of(f.logZ_gr, f.logZ_edr)
           BF    == BF_of(dlogZ)
       IN  frame' = [frame EXCEPT ![th].out =
                       [event |-> ev.event, detector |-> PairDetector(f.pair),
                        Mrem |-> ev.Mrem, chi |-> ev.chi,
                        logZ_GR |-> f.logZ_gr, logZerr_GR |-> f.logZerr_gr,
                        logZ_EDR |-> f.logZ_edr, logZerr_EDR |-> f.logZerr_edr,
                        dlogZ |-> dlogZ, BF |-> BF,
                        favored |-> favored_of(BF)]]
    /\ pc' = [pc EXCEPT ![th] = "write"]
    /\ UNCHANGED <<call, todo, data, sampler, out_files, report, argv, evidences>>

\* lines 202-229
Compare(th) ==
    /\ pc[th] = "compare"
    /\ LET f     == frame[th]
           ev    == PairEvent(f.pair)
           dlogZ == dlogZ_of(f.logZ_gr, f.logZ_edr)
           BF    == BF_of(dlogZ)
       IN  frame' = [frame EXCEPT ![th].out =
                       [event |-> ev.event, detector |-> PairDetector(f.pair),
                        Mrem |-> ev.Mrem, chi |-> ev.chi,
                        logZ_GR |-> f.logZ_gr, logZerr_GR |-> f.logZerr_gr,
                        logZ_EDR |-> f.logZ_edr, logZerr_EDR |-> f.logZerr_edr,
                        dlogZ |-> dlogZ, BayesFactor |-> BF,
                        favored |-> favored_of(BF)]]
    /\ pc' = [pc EXCEPT ![th] = "write"]
    /\ UNCHANGED <<call, todo, data, sampler, out_files, report, argv, evidences>>

\* lines 231-237: the record is written, bayes_compare returns
Write(th) ==
    /\ pc[th] = "write"
    /\ out_files' = [out_files EXCEPT ![frame[th].pair] = frame[th].out]
    /\ report' = [report EXCEPT ![frame[th].pair] =
                    [printed |-> <<"Guardado", frame[th].out.event,
                                   frame[th].out.detector>>,
                     stage |-> "none"]]
    /\ frame' = [frame EXCEPT ![th] = NoFrame]
    /\ pc' = [pc EXCEPT ![th] = "main"]
    /\ UNCHANGED <<call, todo, data, sampler, argv, evidences>>

NextPipe ==
    \E th \in Threads :
        \/ MainNext(th)
        \/ LoadMissing(th)
        \/ LoadUnreadable(th)
        \/ LoadOk(th)
        \/ MakeGR(th)
        \/ Evaluate(th)
        \/ NestedReturn(th)
        \/ NestedRaise(th)
        \/ MakeEDR(th)
        \/ Compare(th)
        \/ Write(th)

\* what every run starts from: no series loaded, nothing written or printed
InitPipe ==
    /\ call = [fn |-> "none"]
    /\ data = [owner |-> 0, value |-> <<>>]
    /\ frame = [th \in Threads |-> NoFrame]
    /\ sampler = [th \in Threads |-> NoSampler]
    /\ out_files = [p \in 1..NumPairs |-> NoRecord]
    /\ report = [p \in 1..NumPairs |-> NoReport]

\* main with argument "all": one caller goes through the pairs in order
Init ==
    /\ InitPipe
    /\ argv = "all"
    /\ evidences = {NestedResult(Z(-100, 0), 1), NestedResult(Z(-95, 0), 2)}
    /\ todo = [th \in Threads |-> IF th = 1 THEN [p \in 1..NumPairs |-> p] ELSE <<>>]
    /\ pc = [th \in Threads |-> IF th = 1 THEN "main" ELSE "done"]

Spec == Init /\ [][NextPipe]_vars

\* main with a detector, an event, a mass and a spin (line 266): one
\* analysis, of any pair, with every evidence the sampler may return
InitSingle ==
    /\ InitPipe
    /\ argv = "single"
    /\ evidences = {NestedResult(z, e) : z \in LogZValues, e \in LogZErrs}
    /\ \E p \in 1..NumPairs :
          todo = [th \in Threads |-> IF th = 1 THEN <<p>> ELSE <<>>]
    /\ pc = [th \in Threads |-> IF th = 1 THEN "main" ELSE "done"]

SpecSingle == InitSingle /\ [][NextPipe]_vars

\* two callers of bayes_compare at once, each with a pair of its own
InitConcurrent ==
    /\ InitPipe
    /\ argv = "all"
    /\ evidences = {NestedResult(Z(-100, 0), 1), NestedResult(Z(-95, 0), 2)}
    /\ todo = [th \in Threads |-> <<th>>]
    /\ pc = [th \in Threads |-> "main"]

SpecConcurrent == InitConcurrent /\ [][NextPipe]_vars

\* the steps of a caller other than one more evaluation by the sampler
Proceed(th) ==
    \/ MainNext(th)
    \/ LoadMissing(th)
    \/ LoadUnreadable(th)
    \/ LoadOk(th)
    \/ MakeGR(th)
    \/ NestedReturn(th)
    \/ NestedRaise(th)
    \/ MakeEDR(th)
    \/ Compare(th)
    \/ Write(th)

\* The batch of Init, run by an interpreter that keeps taking steps: every
\* call returns or raises, and the sampler does not evaluate for ever.
SpecBatch == Init /\ [][NextPipe]_vars /\ \A th \in Threads : WF_vars(Proceed(th))

\* The program is started again for one analysis, of any pair, after a run
\* of it has ended: a new process (no series loaded, nothing printed) that
\* finds results/bayes_compare as the earlier runs left it.
Rerun ==
    /\ argv = "single"
    /\ \A th \in Threads : pc[th] \in {"done", "crashed"}
    /\ \E p \in 1..NumPairs :
          todo' = [th \in Threads |-> IF th = 1 THEN <<p>> ELSE <<>>]
    /\ pc' = [th \in Threads |-> IF th = 1 THEN "main" ELSE "done"]
    /\ data' = [owner |-> 0, value |-> <<>>]
    /\ report' = [p \in 1..NumPairs |-> NoReport]
    /\ UNCHANGED <<call, frame, sampler, out_files, argv, evidences>>

\* single analyses, one run of the program after the other
InitRerun ==
    /\ InitPipe
    /\ argv = "single"
    /\ evidences = {NestedResult(Z(-100, 0), 1), NestedResult(Z(-95, 0), 2)}
    /\ \E p \in 1..NumPairs :
          todo = [th \in Threads |-> IF th = 1 THEN <<p>> ELSE <<>>]
    /\ pc = [th \in Threads |-> IF th = 1 THEN "main" ELSE "done"]

SpecRerun == InitRerun /\ [][NextPipe \/ Rerun]_vars

-----------------------------------------------------------------------------
(* scripts/build_paper.py: load_results *)

\* required_keys, line 33
required_keys == {"logZ_GR", "logZ_EDR", "dlogZ", "BayesFactor", "favored"}

\* lines 38-46: the entry made of an accepted document
Entry(doc) ==
    [event |-> doc.event, det |-> doc.detector, logZ_GR |-> doc.logZ_GR,
     logZ_EDR |-> doc.logZ_EDR, dlogZ |-> doc.dlogZ,
     BayesFactor |-> doc.BayesFactor, favored |-> doc.favored]

\* load_results() on the files of results/bayes_compare (files[p] the
\* document of pair p, or NoRecord where there is no file): the files it
\* skips, and its entries (glob gives no order) or the exception it ends with
load_results(files) ==
    LET found    == {p \in DOMAIN files : files[p] # NoRecord}
        accepted == {p \in found : required_keys \subseteq DOMAIN files[p]}
    IN  IF \E p \in accepted : ~({"event", "detector"} \subseteq DOMAIN files[p])
        THEN [raised |-> "KeyError", skipped |-> found \ accepted, entries |-> {}]
        ELSE IF accepted = {}
        THEN [raised |-> "RuntimeError", skipped |-> found \ accepted, entries |-> {}]
        ELSE [raised |-> "none", skipped |-> found \ accepted,
              entries |-> {Entry(files[p]) : p \in accepted}]

\* build_paper is run on what the batch has written so far
LoadResults ==
    /\ call' = [fn |-> "load_results", files |-> out_files,
                result |-> load_results(out_files)]
    /\ UNCHANGED pipeVars

\* the batch, and the aggregation run at any moment of it
SpecPaper == Init /\ [][NextPipe \/ LoadResults]_vars

-----------------------------------------------------------------------------
(* Inputs of the calls *)

\* remnant masses in 0.1 solar masses: valid ones, zero and a negative one
Masses == {-680, 0, 190, 680, 1420}

\* spins in 1/100: -0.1, 0.0, 0.5, 0.67, 0.99, 1.0, 1.1
Spins == {-10, 0, 50, 67, 99, 100, 110}

\* mode labels a caller may pass: the supported ones and others
ModeLabels == {"22", "33", "21", "44", ""}

NoCall == [fn |-> "none"]

\* the pipeline at rest, for the specifications that only call functions
PipeIdle ==
    /\ todo = [th \in {1, 2} |-> <<>>]
    /\ pc = [th \in {1, 2} |-> "done"]
    /\ data = [owner |-> 0, value |-> <<>>]
    /\ frame = [th \in {1, 2} |-> [pair |-> 0]]
    /\ sampler = [th \in {1, 2} |-> [model |-> "none"]]
    /\ out_files = <<>>
    /\ report = <<>>
    /\ argv = "none"
    /\ evidences = {}

InitCalls == call = NoCall /\ PipeIdle

\* a call freq_tau(M_solar, chi, mode)
CallFreqTau ==
    \E M \in Masses, chi \in Spins, mode \in ModeLabels :
        /\ call' = [fn |-> "freq_tau", M_solar |-> M, chi |-> chi, mode |-> mode,
                    result |-> freq_tau(M, chi, mode)]
        /\ UNCHANGED pipeVars

\* what a call of a model's prior_transform leaves: the model's captured
\* variables and the returned vector, or the exception of the constructor
PriorCall(model, M, chi, u, m, theta) ==
    [fn |-> "prior_transform", model |-> model, Mrem |-> M, chi |-> chi,
     u |-> u, raised |-> m.raised, env |-> m.env, theta |-> theta]

\* make_gr_model(t, Mrem, chi), then its prior_transform(u)
CallPriorGR ==
    \E M \in Masses, chi \in Spins, u \in UPoints(5) :
        LET m == make_gr_model(FileTimes(1), M, chi)
        IN  /\ call' = PriorCall("gr", M, chi, u, m,
                          IF m.raised = "none" THEN prior_transform_gr(m.env, u)
                          ELSE <<>>)
            /\ UNCHANGED pipeVars

\* make_edr_model(t, Mrem, chi), then its prior_transform(u)
CallPriorEDR ==
    \E M \in Masses, chi \in Spins, u \in UPoints(13) :
        LET m == make_edr_model(FileTimes(1), M, chi)
        IN  /\ call' = PriorCall("edr", M, chi, u, m,
                          IF m.raised = "none" THEN prior_transform_edr(m.env, u)
                          ELSE <<>>)
            /\ UNCHANGED pipeVars

NextCalls == CallFreqTau \/ CallPriorGR \/ CallPriorEDR

SpecCalls == InitCalls /\ [][NextCalls]_vars

-----------------------------------------------------------------------------
(* Calls of the templates, the window and the shifts *)

\* a uniform axis, and samples of a 50 ms axis taken densely around 10 ms
\* (its onset ramp is 0.002 * 50 ms = 10 ticks long)
AxisShort == <<0, 500, 1000>>

AxisRamp == <<0, 1000, 1002, 1004, 1005, 1006, 1008, 1010, 1011, 5000>>

TimeAxes == {AxisShort, AxisRamp}

\* onset times, as parameters: on a sample, between samples, past the axis
Onsets == {ToTheta(0), ToTheta(500) + 1, ToTheta(1000), ToTheta(1005), ToTheta(6000)}

\* amplitudes, frequencies, decay times and phases, as parameters
Amplitudes == {ToTheta(-1000), 0, ToTheta(500)}

Frequencies == {ToTheta(2484), ToTheta(1000)}

DecayTimes == {ToTheta(406), ToTheta(50)}

Phases == {0, ToTheta(500)}

\* deviation ratios, as parameters: -1.5, -0.5, 0, the smallest one, 0.5
Deviations == {ToTheta(-1500), ToTheta(-500), 0, 1, ToTheta(500)}

\* the function returns
ReturnCall ==
    /\ call # NoCall
    /\ call' = NoCall
    /\ UNCHANGED pipeVars

\* damped_sine(t, A, f0, tau, phi, t0) of model_gr.py, or damped_sine_mode
\* of model_edr_full.py
CallDampedSine ==
    /\ call = NoCall
    /\ \E fn \in {"damped_sine", "damped_sine_mode"}, t \in TimeAxes,
          A \in Amplitudes, f0 \in Frequencies, tau \in DecayTimes,
          phi \in Phases, t0 \in Onsets :
         call' = [fn |-> fn, t |-> t, A |-> A, f0 |-> f0, tau |-> tau,
                  phi |-> phi, t0 |-> t0,
                  result |-> IF fn = "damped_sine"
                             THEN damped_sine(t, A, f0, tau, phi, t0)
                             ELSE damped_sine_mode(t, A, f0, tau, phi, t0)]
    /\ UNCHANGED pipeVars

\* planck_taper(t, t0)
CallPlanckTaper ==
    /\ call = NoCall
    /\ \E t \in TimeAxes, t0 \in Onsets :
         call' = [fn |-> "planck_taper", t |-> t, t0 |-> t0,
                  result |-> planck_taper(t, t0)]
    /\ UNCHANGED pipeVars

\* One of the three builders on the axis np.arange(0, 0.015, 1/200), with
\* phases 0, pi/2 and pi/4 and, for the extended ones, a deviation d of the
\* frequencies and -d of the decay times.
CallMultimode ==
    /\ call = NoCall
    /\ \E fn \in {"gr_multimode_template", "edr_multimode_full", "edr_multimode_template"},
          chi \in {67, 100}, A22 \in {0, ToTheta(1000)}, A33 \in {0, ToTheta(1000)},
          A21 \in {0, ToTheta(1000)}, d \in {0, ToTheta(200)},
          t0 \in {ToTheta(0), ToTheta(500)} :
         LET M == 680
             p22 == 0
             p33 == ToTheta(500)
             p21 == ToTheta(250)
         IN  call' = [fn |-> fn, M_solar |-> M, chi |-> chi, t0 |-> t0, d |-> d,
                      A |-> [m \in SupportedModes |->
                               IF m = "22" THEN A22 ELSE IF m = "33" THEN A33 ELSE A21],
                      phi |-> [m \in SupportedModes |->
                                 IF m = "22" THEN p22 ELSE IF m = "33" THEN p33 ELSE p21],
                      result |->
                        IF fn = "gr_multimode_template"
                        THEN gr_multimode_template(200, 1500, M, chi, t0, A22, A33,
                                                   A21, p22, p33, p21)
                        ELSE IF fn = "edr_multimode_full"
                        THEN edr_multimode_full(Arange(200, 1500), M, chi, A22, A33,
                                                A21, d, -d, d, -d, d, -d, p22, p33,
                                                p21, t0)
                        ELSE edr_multimode_template(200, 1500, M, chi, d, -d, t0,
                                                    A22, A33, A21, p22, p33, p21)]
    /\ UNCHANGED pipeVars

\* the three implementations of the deviation shift on one (f, tau)
CallShift ==
    /\ call = NoCall
    /\ \E f \in {2484, 1}, tau \in {406, 218}, d_om \in Deviations, d_tau \in Deviations :
         call' = [fn |-> "shift", f_gr |-> f, tau_gr |-> tau, d_om |-> d_om,
                  d_tau |-> d_tau,
                  full |-> edr_shift_freq_tau(f, tau, d_om, d_tau),
                  split |-> [f |-> edr_f0(f, d_om), tau |-> edr_tau(tau, d_tau)],
                  inline |-> [f |-> shifted(f, d_om), tau |-> shifted(tau, d_tau)]]
    /\ UNCHANGED pipeVars

NextTemplates ==
    \/ CallDampedSine
    \/ CallPlanckTaper
    \/ CallMultimode
    \/ CallShift
    \/ ReturnCall

SpecTemplates == InitCalls /\ [][NextTemplates]_vars

-----------------------------------------------------------------------------
(* scripts/fit_edr_full.py, scripts/qnm_analysis.py, scripts/run_module_c.py: *)
(* the point-estimate fits.  The optimizers (scipy's minimize and curve_fit) *)
(* and the FFT are outside the scripts: what they return is an input.        *)

\* a float that is a number, and np.nan
Fl(v) == [nan |-> FALSE, val |-> v]

NaN == [nan |-> TRUE, val |-> 0]

\* params0 of fit_edr_full (lines 85-99), and another point inside its bounds
params0 ==
    <<ToTheta(1000), ToTheta(100), ToTheta(100), 0, 0, 0, 0, 0, 0, 0, 0, 0,
      ToTheta(1000)>>

ParamsMoved ==
    <<ToTheta(500), 0, ToTheta(200), ToTheta(100), ToTheta(-100), 0, 0,
      ToTheta(500), 0, ToTheta(250), 0, ToTheta(-500), 0>>

\* an amplitude bound of None: no upper limit
Unbounded == [limit |-> "None", at |-> 0]

Bound(x) == [limit |-> "float", at |-> x]

\* bounds of fit_edr_full (lines 101-115): (lower, upper) per parameter
bounds ==
    [i \in 1..13 |->
        IF i \in 1..3 THEN <<Bound(ToTheta(0)), Unbounded>>
        ELSE IF i \in 4..9 THEN <<Bound(ToTheta(-500)), Bound(ToTheta(500))>>
        ELSE IF i \in 10..12 THEN <<Bound(ToTheta(-2000)), Bound(ToTheta(2000))>>
        ELSE <<Bound(ToTheta(0)), Bound(ToTheta(5000))>>]

\* lower <= x <= upper, as L-BFGS-B keeps its iterates
InBounds(x) ==
    \A i \in 1..13 :
        /\ bounds[i][1].limit = "float" => x[i] >= bounds[i][1].at
        /\ bounds[i][2].limit = "float" => x[i] <= bounds[i][2].at

\* the corners of the box, the amplitudes of the upper one at 3.0
ParamsLower == [i \in 1..13 |-> bounds[i][1].at]

ParamsUpper ==
    [i \in 1..13 |->
        IF bounds[i][2].limit = "float" THEN bounds[i][2].at ELSE ToTheta(3000)]

\* points at which minimize may evaluate neg_log_like
FitPoints == {x \in {params0, ParamsMoved, ParamsLower, ParamsUpper} : InBounds(x)}

\* fit_edr_full.neg_log_like(params, t, data, Mrem, chi), in 1e-7
neg_log_like(params, t, data_, Mrem, chi) ==
    LET b == edr_multimode_full(t, Mrem, chi, params[1], params[2], params[3],
                                params[4], params[5], params[6], params[7], params[8],
                                params[9], params[10], params[11], params[12],
                                params[13])
        resid == [i \in 1..Len(t) |-> data_[i] - b.total[i]]
    IN  IF b.raised # "none" THEN [raised |-> b.raised, value |-> 0]
        ELSE [raised |-> "none",
              value |-> 5 * Sum([i \in 1..Len(t) |-> resid[i] * resid[i]])]

\* what minimize(..., method="L-BFGS-B") may return: res.x, res.success and
\* res.message
MinimizeResults ==
    {[x |-> x, success |-> TRUE, message |-> "CONVERGENCE: REL_REDUCTION_OF_F_<=_FACTR*EPSMCH"] :
        x \in {params0, ParamsMoved}}
    \cup {[x |-> x, success |-> FALSE, message |-> msg] :
            x \in {params0, ParamsMoved},
            msg \in {"ABNORMAL_TERMINATION_IN_LNSRCH",
                     "STOP: TOTAL NO. of ITERATIONS REACHED LIMIT"}}

\* fit_edr_full(det, event, Mrem, chi) once load_processed has returned
\* (data, t) and minimize has returned res: the lines it prints, the
\* parameter values it shows in them, and what it returns
fit_edr_full(det, event, Mrem, chi, data_, t, res) ==
    LET best == res.x
        b == edr_multimode_full(t, Mrem, chi, best[1], best[2], best[3], best[4],
                                best[5], best[6], best[7], best[8], best[9],
                                best[10], best[11], best[12], best[13])
    IN  IF b.raised # "none"
        THEN [raised |-> b.raised, printed |-> <<<<"Ajuste EDR FULL", event, det>>>>,
              shown |-> <<>>, returned |-> <<>>]
        ELSE [raised |-> "none",
              printed |-> << <<"Ajuste EDR FULL", event, det>>,
                             <<"Parametros EDR FULL">>,
                             <<"Figura guardada en", event, det>> >>,
              shown |-> best,
              returned |-> [best |-> best, h_best |-> b.total,
                            resid |-> [i \in 1..Len(t) |-> data_[i] - b.total[i]]]]

\* str(e) of the exceptions curve_fit raises
CurveFitTexts == {"Optimal parameters not found", "array must not contain infs or NaNs"}

\* what curve_fit may do: return popt (A, f, tau, phi and, in run_module_c,
\* t0) or raise
CurveFitOutcomes ==
    {[raised |-> "none", text |-> "", popt |-> popt] :
        popt \in {<<800, 2510, 400, 0, 300>>, <<120, 15000, 1000, 500, 250>>}}
    \cup {[raised |-> "RuntimeError", text |-> text, popt |-> <<>>] : text \in CurveFitTexts}

\* float(np.max(np.abs(h)))
MaxAbs(h) == CHOOSE m \in {Abs(h[i]) : i \in 1..Len(h)} : \A i \in 1..Len(h) : Abs(h[i]) <= m

\* qnm_analysis.fit_qnm(t_rd, h_rd): peak is what estimate_initial_frequency
\* does (line 117, outside the try), cf what curve_fit does
fit_qnm(h_rd, peak, cf) ==
    LET A0 == MaxAbs(h_rd)
        f0 == peak.val
        tau0 == 5000
        phi0 == 0
    IN  IF peak.raised # "none"
        THEN [raised |-> peak.raised]
        ELSE IF cf.raised = "none"
        THEN [raised |-> "none", A |-> Fl(cf.popt[1]), f |-> Fl(cf.popt[2]),
              tau |-> Fl(cf.popt[3]), phi |-> Fl(cf.popt[4]), success |-> TRUE,
              message |-> <<"OK">>]
        ELSE [raised |-> "none", A |-> Fl(A0), f |-> Fl(f0), tau |-> Fl(tau0),
              phi |-> Fl(phi0), success |-> FALSE,
              message |-> <<"Error en ajuste:", cf.text>>]

\* the QNMFitResult of run_module_c
QNMFitResult(event, det, f, tau, A, phi, t0, success, message) ==
    [raised |-> "none", event |-> event, detector |-> det, f |-> f, tau |-> tau,
     A |-> A, phi |-> phi, t0 |-> t0, success |-> success, message |-> message]

\* a returned result r, with the outside functions the call invoked, in order
Traced(r, calls) ==
    [raised |-> r.raised, event |-> r.event, detector |-> r.detector, f |-> r.f,
     tau |-> r.tau, A |-> r.A, phi |-> r.phi, t0 |-> r.t0, success |-> r.success,
     message |-> r.message, calls |-> calls]

\* run_module_c.fit_qnm_for_event_det(event, det): fetched is what
\* fetch_and_preprocess does, h_fit the samples of the ringdown window,
\* cf what curve_fit does
fit_qnm_for_event_det(event, det, fetched, h_fit, cf) ==
    IF fetched.raised # "none"
    THEN Traced(QNMFitResult(event, det, NaN, NaN, NaN, NaN, NaN, FALSE,
                             <<"Error descargando/preprocesando:", fetched.text>>),
                <<"fetch_and_preprocess">>)
    ELSE IF Len(h_fit) < 10
    THEN Traced(QNMFitResult(event, det, NaN, NaN, NaN, NaN, NaN, FALSE,
                             <<"Muy pocos puntos en ventana de ringdown">>),
                <<"fetch_and_preprocess">>)
    ELSE IF cf.raised = "none"
    THEN Traced(QNMFitResult(event, det, Fl(cf.popt[2]), Fl(cf.popt[3]),
                             Fl(cf.popt[1]), Fl(cf.popt[4]), Fl(cf.popt[5]), TRUE,
                             <<"OK">>),
                <<"fetch_and_preprocess", "curve_fit">>)
    ELSE Traced(QNMFitResult(event, det, NaN, NaN, NaN, NaN, NaN, FALSE,
                             <<"Error en ajuste:", cf.text>>),
                <<"fetch_and_preprocess", "curve_fit">>)

\* the window length below which no fit is made (qnm_analysis line 67)
MinWindow == 10

\* a window check that lets windows of five samples through
select_ringdown_window_five(h_sel) ==
    IF Len(h_sel) < 5
    THEN [raised |-> "ValueError", text |-> "Muy pocos puntos en la ventana de ringdown.",
          h_rd |-> <<>>]
    ELSE [raised |-> "none", text |-> "", h_rd |-> h_sel]

\* qnm_analysis.select_ringdown_window(t, h, t_start, t_end): h_sel is
\* h[mask], the samples with t_start <= t <= t_end
select_ringdown_window(h_sel) ==
    IF Len(h_sel) < MinWindow
    THEN [raised |-> "ValueError", text |-> "Muy pocos puntos en la ventana de ringdown.",
          h_rd |-> <<>>]
    ELSE [raised |-> "none", text |-> "", h_rd |-> h_sel]

\* the QNMResult of qnm_analysis
QNMResult(event, detector, f_qnm, tau, A, phi, t0, success, message) ==
    [event |-> event, detector |-> detector, f_qnm |-> f_qnm, tau |-> tau,
     A |-> A, phi |-> phi, t0 |-> t0, success |-> success, message |-> message]

\* what a call of analyze_qnm_for_event_detector ends with: the exception
\* that leaves it or the QNMResult it returns, and the functions it invoked
Analyzed(raised, returned, calls) ==
    [raised |-> raised, returned |-> returned, calls |-> calls]

\* qnm_analysis.analyze_qnm_for_event_detector(event_name, detector): loaded
\* is what load_white_timeseries does, h_sel the samples between t_start
\* and t_end, peak what estimate_initial_frequency does, cf what curve_fit
\* does.  The window starts at t_start = 0.01 s = 1000 ticks.
analyze_qnm_for_event_detector(event_name, detector, loaded, h_sel, peak, cf) ==
    LET w == select_ringdown_window(h_sel)
        fit == fit_qnm(w.h_rd, peak, cf)
    IN  IF loaded.raised # "none"
        THEN Analyzed("none",
                      QNMResult(event_name, detector, NaN, NaN, NaN, NaN, NaN, FALSE,
                                <<"Error cargando:", loaded.text>>),
                      <<"load_white_timeseries">>)
        ELSE IF w.raised # "none"
        THEN Analyzed("none",
                      QNMResult(event_name, detector, NaN, NaN, NaN, NaN, NaN, FALSE,
                                <<"Error seleccionando ringdown:", w.text>>),
                      <<"load_white_timeseries", "select_ringdown_window">>)
        ELSE IF fit.raised # "none"
        THEN Analyzed(fit.raised, <<>>,
                      <<"load_white_timeseries", "select_ringdown_window", "fit_qnm",
                        "estimate_initial_frequency">>)
        ELSE Analyzed("none",
                      QNMResult(event_name, detector, fit.f, fit.tau, fit.A, fit.phi,
                                Fl(1000), fit.success, fit.message),
                      <<"load_white_timeseries", "select_ringdown_window", "fit_qnm",
                        "estimate_initial_frequency", "curve_fit">>)

-----------------------------------------------------------------------------
(* Calls of the point-estimate fits *)

\* ringdown windows: long enough to fit (one of them all zeros), too short
Windows ==
    {[i \in 1..10 |-> (((7 * i) % 5) - 2) * 100], [i \in 1..10 |-> 0],
     [i \in 1..5 |-> 100 * i]}

\* what estimate_initial_frequency does: a peak frequency (0.1 Hz), or the
\* ValueError of an empty frequency range
Peaks ==
    {[raised |-> "none", val |-> 2500], [raised |-> "none", val |-> 600],
     [raised |-> "ValueError", val |-> 0]}

\* what fetch_and_preprocess does: the strain, or an exception of gwpy
Fetches ==
    {[raised |-> "none", text |-> ""]}
    \cup {[raised |-> "Exception", text |-> text] : text \in LibraryTexts}

\* fit_edr_full(det, event, Mrem, chi) on a processed file
CallFitEdrFull ==
    /\ call = NoCall
    /\ \E p \in 1..NumPairs, res \in MinimizeResults :
         LET ev == PairEvent(p)
         IN  call' = [fn |-> "fit_edr_full", event |-> ev.event,
                      detector |-> PairDetector(p), res |-> res,
                      data |-> FileValues(p), t |-> FileTimes(p),
                      Mrem |-> ev.Mrem, chi |-> ev.chi,
                      result |-> fit_edr_full(PairDetector(p), ev.event, ev.Mrem,
                                              ev.chi, FileValues(p), FileTimes(p), res)]
    /\ UNCHANGED pipeVars

\* one evaluation of neg_log_like by minimize (lines 117-123)
CallNegLogLike ==
    /\ call = NoCall
    /\ \E p \in 1..NumPairs, params \in FitPoints :
         call' = [fn |-> "neg_log_like", params |-> params, pair |-> p,
                  result |-> neg_log_like(params, FileTimes(p), FileValues(p),
                                          PairEvent(p).Mrem, PairEvent(p).chi)]
    /\ UNCHANGED pipeVars

\* qnm_analysis.fit_qnm(t_rd, h_rd)
CallFitQnm ==
    /\ call = NoCall
    /\ \E h \in {w \in Windows : Len(w) >= 10}, peak \in Peaks, cf \in CurveFitOutcomes :
         call' = [fn |-> "fit_qnm", h |-> h, peak |-> peak, cf |-> cf,
                  result |-> fit_qnm(h, peak, cf)]
    /\ UNCHANGED pipeVars

\* run_module_c.fit_qnm_for_event_det(event, det)
CallFitQnmForEventDet ==
    /\ call = NoCall
    /\ \E p \in 1..NumPairs, fetched \in Fetches, h \in Windows, cf \in CurveFitOutcomes :
         call' = [fn |-> "fit_qnm_for_event_det", h |-> h, fetched |-> fetched,
                  cf |-> cf,
                  result |-> fit_qnm_for_event_det(PairEvent(p).event, PairDetector(p),
                                                   fetched, h, cf)]
    /\ UNCHANGED pipeVars

\* what load_white_timeseries does: the series, the FileNotFoundError of a
\* missing file, or an exception of h5py
Loads ==
    {[raised |-> "none", text |-> ""],
     [raised |-> "FileNotFoundError", text |-> "No existe archivo WHITE"]}
    \cup {[raised |-> "Exception", text |-> text] : text \in LibraryTexts}

\* qnm_analysis.analyze_qnm_for_event_detector(ev, det), as run_qnm.main
\* calls it for a pair (lines 29-31)
CallAnalyzeQnm ==
    /\ call = NoCall
    /\ \E p \in 1..NumPairs, loaded \in Loads, h \in Windows, peak \in Peaks, cf \in CurveFitOutcomes :
         call' = [fn |-> "analyze_qnm_for_event_detector", h |-> h, loaded |-> loaded,
                  peak |-> peak, cf |-> cf,
                  result |-> analyze_qnm_for_event_detector(PairEvent(p).event,
                                                            PairDetector(p), loaded, h,
                                                            peak, cf)]
    /\ UNCHANGED pipeVars

NextFits ==
    \/ CallFitEdrFull
    \/ CallNegLogLike
    \/ CallFitQnm
    \/ CallFitQnmForEventDet
    \/ CallAnalyzeQnm
    \/ ReturnCall

SpecFits == InitCalls /\ [][NextFits]_vars

-----------------------------------------------------------------------------
(* Claims about the templates, under SpecTemplates *)

\* C12: the single-mode signal is exactly 0 at every sample with t < t0,
\* whatever the amplitude, frequency, decay time and phase; when no sample
\* has t >= t0 it is the all-zero signal of the input's length.
C12_ZeroBeforeOnset ==
    call.fn \in {"damped_sine", "damped_sine_mode"} =>
        /\ Len(call.result) = Len(call.t)
        /\ \A i \in 1..Len(call.t) :
              ToTheta(call.t[i]) < call.t0 => call.result[i] = 0
        /\ (\A i \in 1..Len(call.t) : ~(ToTheta(call.t[i]) >= call.t0)) =>
              call.result = [i \in 1..Len(call.t) |-> 0]

\* an unwindowed mode that starts between two samples: zero before, not
\* zero after
C12_Witness ==
    /\ call.fn = "damped_sine_mode"
    /\ call.t = AxisShort
    /\ call.t0 = ToTheta(500) + 1
    /\ call.A # 0
    /\ call.result[1] = 0
    /\ call.result[2] = 0
    /\ call.result[3] # 0

\* C13: planck_taper is 0 below t0 and 1 above the ramp end t0 + dt; on the
\* ramp [t0, t0 + dt] it never decreases with t and it approaches 1 at the
\* far edge (within a tenth of the ramp from its end it is above 0.9).
C13_TaperRisesToOne ==
    call.fn = "planck_taper" =>
        LET t  == call.t
            w  == call.result
            ti == call.t0
            tf == call.t0 + RoundDiv(EpsMilli * ToTheta(t[Len(t)] - t[1]), 1000)
            onRamp(i) == ToTheta(t[i]) >= ti /\ ToTheta(t[i]) <= tf
        IN  \A i \in 1..Len(t) :
                /\ ToTheta(t[i]) < ti => w[i] = 0
                /\ (ToTheta(t[i]) > tf /\ ToTheta(t[Len(t)]) >= ti) => w[i] = 1000
                /\ \A j \in 1..Len(t) :
                      (onRamp(i) /\ onRamp(j) /\ t[i] <= t[j]) => w[i] <= w[j]
                /\ (onRamp(i) /\ 10 * (ToTheta(t[i]) - ti) >= 9 * (tf - ti)) =>
                      w[i] >= 900

\* C14: a multi-mode builder (gr_multimode_template, edr_multimode_full)
\* with exactly one nonzero amplitude returns, sample for sample, the
\* single-mode signal of that mode with its frequency, decay time, phase
\* and onset, whichever of 22, 33 and 21 it is.
C14_OneModeIsSingleMode ==
    (call.fn \in {"gr_multimode_template", "edr_multimode_full"}
        /\ call.result.raised = "none"
        /\ Cardinality({m \in SupportedModes : call.A[m] # 0}) = 1) =>
        LET m == CHOOSE x \in SupportedModes : call.A[x] # 0
            g == freq_tau(call.M_solar, call.chi, m)
            t == call.result.t
        IN  call.result.total =
                IF call.fn = "gr_multimode_template"
                THEN damped_sine(t, call.A[m], ToTheta(g.f0), ToTheta(g.tau),
                                 call.phi[m], call.t0)
                ELSE damped_sine_mode(t, call.A[m],
                                      RoundDiv(g.f0 * (ToTheta(1000) + call.d), 1000),
                                      RoundDiv(g.tau * (ToTheta(1000) - call.d), 1000),
                                      call.phi[m], call.t0)

\* the baseline builder with the 21 mode alone, and a signal that is not zero
C14_Witness ==
    /\ call.fn = "gr_multimode_template"
    /\ call.result.raised = "none"
    /\ call.A["22"] = 0
    /\ call.A["33"] = 0
    /\ call.A["21"] # 0
    /\ \E i \in 1..Len(call.result.total) : call.result.total[i] # 0

\* C15: when a multi-mode template is built, freq_tau is never evaluated
\* for a mode whose amplitude is zero, for each of the modes 22, 33 and 21.
C15_ZeroAmplitudeSkipsMode ==
    call.fn \in {"gr_multimode_template", "edr_multimode_full", "edr_multimode_template"} =>
        \A m \in SupportedModes :
            call.A[m] = 0 =>
                \A i \in 1..Len(call.result.calls) : call.result.calls[i] # m

\* C16: the deviation shift returns (f*(1+d_freq_ratio), tau*(1+d_tau_ratio))
\* with no bounds enforced, exactly (f, tau) at zero deviation, and
\* edr_shift_freq_tau, edr_f0/edr_tau and the inline shift of the extended
\* loglike give the same result.
C16_ShiftAgreesAndIsIdentityAtZero ==
    call.fn = "shift" =>
        /\ call.full = call.split
        /\ call.full = call.inline
        /\ call.full.f = RoundDiv(call.f_gr * (ToTheta(1000) + call.d_om), 1000)
        /\ call.full.tau = RoundDiv(call.tau_gr * (ToTheta(1000) + call.d_tau), 1000)
        /\ call.d_om = 0 => call.full.f = ToTheta(call.f_gr)
        /\ call.d_tau = 0 => call.full.tau = ToTheta(call.tau_gr)

\* no frequency deviation, and a decay deviation of -1.5 that is not refused
C16_Witness ==
    /\ call.fn = "shift"
    /\ call.f_gr = 2484
    /\ call.d_om = 0
    /\ call.d_tau = ToTheta(-1500)
    /\ call.full.f = ToTheta(2484)
    /\ call.full.tau < 0

-----------------------------------------------------------------------------
(* Claims about the point-estimate fits, under SpecFits *)

\* C19: when the optimizer of fit_edr_full does not converge, this is
\* reported to the caller together with the optimizer's diagnostic message,
\* while the best vector found, its model signal and its residual are
\* still returned.
C19_NonConvergenceReported ==
    (call.fn = "fit_edr_full" /\ call.result.raised = "none" /\ ~call.res.success) =>
        /\ call.result.returned.best = call.res.x
        /\ Len(call.result.returned.h_best) = Len(call.t)
        /\ call.result.returned.resid =
              [i \in 1..Len(call.t) |-> call.data[i] - call.result.returned.h_best[i]]
        /\ \/ \E i \in 1..Len(call.result.printed) :
                 \E j \in 1..Len(call.result.printed[i]) :
                    call.result.printed[i][j] = call.res.message
           \/ DOMAIN call.result.returned \cap {"success", "message"} # {}

\* C20: when the curve-fit optimizer fails in a QNM point-estimate fit the
\* failure is not fatal: the fitter returns success = False, a message with
\* the optimizer's error, and still the best-available point: a finite
\* amplitude, frequency, decay time and phase, not NaN.
C20_FailedFitKeepsBestPoint ==
    (/\ call.fn \in {"fit_qnm", "fit_qnm_for_event_det"}
     /\ call.cf.raised # "none"
     /\ Len(call.h) >= 10
     /\ (call.fn = "fit_qnm" => call.peak.raised = "none")
     /\ (call.fn = "fit_qnm_for_event_det" => call.fetched.raised = "none")) =>
        /\ call.result.raised = "none"
        /\ call.result.success = FALSE
        /\ call.result.message = <<"Error en ajuste:", call.cf.text>>
        /\ ~call.result.A.nan
        /\ ~call.result.f.nan
        /\ ~call.result.tau.nan
        /\ ~call.result.phi.nan

\* C25: the point-estimate fitter uses the template of the Bayesian
\* extended model: for every 13-parameter vector, time axis, series and
\* remnant state, neg_log_like(params) of fit_edr_full is minus the
\* extended loglike(params) of bayes_compare_edr on that series, that is,
\* edr_multimode_full gives the sum of the three damped_sine modes of loglike.
C25_FitUsesTheBayesianTemplate ==
    call.fn = "neg_log_like" =>
        LET ev  == PairEvent(call.pair)
            obs == FileValues(call.pair)
            m   == make_edr_model(FileTimes(call.pair), ev.Mrem, ev.chi)
            h   == template_edr(m.env, unpack_edr(call.params))
        IN  /\ m.raised = "none"
            /\ call.result.raised = "none"
            /\ call.result.value =
                  5 * Sum([i \in 1..Len(obs) |-> (obs[i] - h[i]) * (obs[i] - h[i])])

\* C27: every parameter vector that can reach a template builder, here any
\* point inside the box bounds given to the optimizer of fit_edr_full, has
\* every amplitude >= 0, every phase within [-pi, pi], every deviation ratio
\* within [-0.5, 0.5] and the onset time within [0, 0.05].
C27_ParametersWithinRanges ==
    (call.fn = "neg_log_like" /\ InBounds(call.params)) =>
        /\ \A i \in 1..3 : call.params[i] >= ToTheta(0)
        /\ \A i \in 4..9 :
              call.params[i] >= ToTheta(-500) /\ call.params[i] <= ToTheta(500)
        /\ \A i \in 10..12 :
              call.params[i] >= ToTheta(-1000) /\ call.params[i] <= ToTheta(1000)
        /\ call.params[13] >= ToTheta(0) /\ call.params[13] <= ToTheta(5000)

\* C21: a ringdown window of fewer than 10 samples is a window-too-short
\* failure and no fit is attempted on it: select_ringdown_window raises, and
\* neither analyze_qnm_for_event_detector nor fit_qnm_for_event_det invokes
\* curve_fit; the result has success = False and the window message.
C21_ShortWindowIsNeverFitted ==
    /\ (/\ call.fn = "analyze_qnm_for_event_detector"
        /\ call.loaded.raised = "none"
        /\ Len(call.h) < 10) =>
           /\ select_ringdown_window(call.h).raised = "ValueError"
           /\ call.result.raised = "none"
           /\ call.result.returned.success = FALSE
           /\ call.result.returned.message =
                 <<"Error seleccionando ringdown:",
                   "Muy pocos puntos en la ventana de ringdown.">>
           /\ \A i \in 1..Len(call.result.calls) :
                 call.result.calls[i] \notin {"fit_qnm", "estimate_initial_frequency",
                                              "curve_fit"}
    /\ (/\ call.fn = "fit_qnm_for_event_det"
        /\ call.fetched.raised = "none"
        /\ Len(call.h) < 10) =>
           /\ call.result.success = FALSE
           /\ call.result.message = <<"Muy pocos puntos en ventana de ringdown">>
           /\ \A i \in 1..Len(call.result.calls) : call.result.calls[i] # "curve_fit"

\* analyze_qnm_for_event_detector was given a window of five samples and an
\* optimizer that would have converged
C21_Witness ==
    /\ call.fn = "analyze_qnm_for_event_detector"
    /\ call.loaded.raised = "none"
    /\ Len(call.h) = 5
    /\ call.peak.raised = "none"
    /\ call.cf.raised = "none"
    /\ call.result.returned.success = FALSE

\* C29: analyze_qnm_for_event_detector never propagates an exception:
\* whatever fails in loading, selecting the window, estimating the initial
\* frequency or fitting, it returns a QNMResult with success = False and a
\* message, so run_qnm.main prints a row for every pair; success = True
\* only when load, window selection and fit all succeeded.
C29_AnalyzeNeverRaises ==
    call.fn = "analyze_qnm_for_event_detector" =>
        /\ call.result.raised = "none"
        /\ call.result.returned.success =
              (/\ call.loaded.raised = "none"
               /\ Len(call.h) >= 10
               /\ call.peak.raised = "none"
               /\ call.cf.raised = "none")
        /\ Len(call.result.returned.message) >= 1

-----------------------------------------------------------------------------
(* Claims about the evaluators, under SpecConcurrent and Spec *)

\* C1: under any interleaving of two bayes_compare analyses on different
\* series, every loglike evaluation of an analysis computes its residual
\* against that analysis's own observed series, never the other's.
C1_EvaluationReadsOwnSeries ==
    \A th \in Threads :
        sampler[th].last # NoEval => sampler[th].last.read = frame[th].pair

\* C4: loglike(theta) is -0.5 times the sum over the samples of
\* (observed - model)^2 for the analysis's series, the model being one
\* damped sine of theta (baseline), or the sum of the three per-mode damped
\* sines with frequency f_gr*(1+d_om) and decay tau_gr*(1+d_tau) (extended).
C4_LoglikeIsHalfSquaredResidual ==
    \A th \in Threads :
        sampler[th].last # NoEval =>
            LET ev  == PairEvent(frame[th].pair)
                t   == FileTimes(frame[th].pair)
                obs == FileValues(frame[th].pair)
                x   == sampler[th].last.theta
                g22 == freq_tau(ev.Mrem, ev.chi, "22")
                g33 == freq_tau(ev.Mrem, ev.chi, "33")
                g21 == freq_tau(ev.Mrem, ev.chi, "21")
                m22 == damped_sine(t, x[1], shifted(g22.f0, x[4]),
                                   shifted(g22.tau, x[5]), x[10], x[13])
                m33 == damped_sine(t, x[2], shifted(g33.f0, x[6]),
                                   shifted(g33.tau, x[7]), x[11], x[13])
                m21 == damped_sine(t, x[3], shifted(g21.f0, x[8]),
                                   shifted(g21.tau, x[9]), x[12], x[13])
                h   == IF sampler[th].model = "gr"
                       THEN damped_sine(t, x[1], x[2], x[3], x[4], x[5])
                       ELSE [i \in 1..Len(t) |-> m22[i] + m33[i] + m21[i]]
            IN  sampler[th].last.value =
                    -5 * Sum([i \in 1..Len(t) |-> (obs[i] - h[i]) * (obs[i] - h[i])])

\* an evaluation of the extended model whose template is not zero
C4_Witness ==
    \E th \in Threads :
        /\ sampler[th].model = "edr"
        /\ sampler[th].last # NoEval
        /\ LET obs == FileValues(frame[th].pair)
           IN  sampler[th].last.value #
                   -5 * Sum([i \in 1..Len(obs) |-> obs[i] * obs[i]])

\* C5: for each model the vector of prior_transform has the length ndim
\* handed to run_nested (5 baseline, 13 extended), and position i written
\* by prior_transform is read as the same named parameter by loglike.
C5_OrderAndLengthAgree ==
    \A th \in Threads :
        sampler[th].last # NoEval =>
            LET u     == sampler[th].last.u
                theta == sampler[th].last.theta
            IN  /\ Len(u) = sampler[th].ndim
                /\ Len(theta) = sampler[th].ndim
                /\ sampler[th].model = "gr" =>
                      /\ sampler[th].ndim = 5
                      /\ unpack_gr(theta) = prior_values_gr(frame[th].gr, u)
                /\ sampler[th].model = "edr" =>
                      /\ sampler[th].ndim = 13
                      /\ unpack_edr(theta) = prior_values_edr(frame[th].edr, u)

\* an evaluation of the extended model at a point that tells position 4
\* from position 5
C5_Witness ==
    \E th \in Threads :
        /\ sampler[th].model = "edr"
        /\ sampler[th].last # NoEval
        /\ sampler[th].last.u[4] # sampler[th].last.u[5]
        /\ sampler[th].last.theta[4] # sampler[th].last.theta[5]

\* C8: prior_transform is pure: a call changes nothing outside its return
\* value (not u, the bounds or the module-level data), and the same u gives
\* the same vector whatever calls, evaluations or analyses came in between.
C8_PriorTransformPure ==
    /\ [](\A th \in Threads :
            sampler[th].last # NoEval =>
                sampler[th].last.theta =
                    IF sampler[th].model = "gr"
                    THEN prior_transform_gr(frame[th].gr, sampler[th].last.u)
                    ELSE prior_transform_edr(frame[th].edr, sampler[th].last.u))
    /\ [][\A th \in Threads :
            (sampler[th].model # "none" /\ sampler'[th].evals = sampler[th].evals + 1) =>
                /\ data' = data
                /\ frame' = frame
                /\ out_files' = out_files
                /\ sampler'[th].last.u \in UPoints(sampler[th].ndim)]_vars

\* the other analysis loaded its series after this one's evaluation
C8_Witness ==
    \E th \in Threads :
        /\ sampler[th].last # NoEval
        /\ sampler[th].last.read = frame[th].pair
        /\ data.owner # frame[th].pair

-----------------------------------------------------------------------------
(* Claims about the batch, under SpecBatch and Spec *)

\* C17: in batch mode every (event, detector) pair of the catalog is
\* attempted exactly once, in catalog order, whatever the outcome of the
\* others: a failing pair is logged and the loop goes on to the next, no
\* pair is retried, and the batch ends after the last pair.
C17_BatchAttemptsEveryPairOnce ==
    /\ [][\A th \in Threads :
            todo'[th] # todo[th] =>
                /\ todo[th] # <<>>
                /\ todo'[th] = Tail(todo[th])
                /\ frame'[th].pair = Head(todo[th])
                /\ report[Head(todo[th])] = NoReport
                /\ \A p \in 1..NumPairs :
                      p < Head(todo[th]) <=> report[p] # NoReport]_vars
    /\ [][\A p \in 1..NumPairs :
            report[p] # NoReport =>
                /\ report'[p] = report[p]
                /\ \A th \in Threads : frame'[th].pair # p]_vars
    /\ <>[](/\ pc[1] = "done"
            /\ todo[1] = <<>>
            /\ \A p \in 1..NumPairs : report[p] # NoReport)

\* the batch is over, its first pair failed and its second was saved
C17_Witness ==
    /\ argv = "all"
    /\ pc[1] = "done"
    /\ report[1].stage = "run_nested"
    /\ report[2].stage = "none"
    /\ report[2].printed[1] = "Guardado"
    /\ out_files[1] = NoRecord
    /\ out_files[2] # NoRecord

\* C18: in the batch a failure of the evidence integration is reported as
\* a failure mode distinct from missing or unreadable observed data: what
\* main reports for the one is never what it reports for the other.
C18_ReportTellsIntegrationFromData ==
    \A p, q \in 1..NumPairs :
        (report[p].stage = "load_processed" /\ report[q].stage = "run_nested") =>
            report[p].printed[4] # report[q].printed[4]

\* C24: within one bayes_compare call the steps come in the order load,
\* baseline integration (ndim 5), extended integration (ndim 13), write; the
\* record is written once and only after both integrations returned; if
\* the load or an integration raises no record is written for the pair, and
\* the extended integration is not started after a baseline failure.
C24_StepsInOrder ==
    /\ [][\A th \in Threads :
            pc'[th] # pc[th] =>
                /\ pc'[th] = "make_gr" => pc[th] = "load"
                /\ pc'[th] = "run_gr" =>
                      pc[th] = "make_gr" /\ sampler'[th].ndim = 5
                /\ pc'[th] = "make_edr" => pc[th] = "run_gr"
                /\ pc'[th] = "run_edr" =>
                      pc[th] = "make_edr" /\ sampler'[th].ndim = 13
                /\ pc'[th] = "compare" => pc[th] = "run_edr"
                /\ pc'[th] = "write" => pc[th] = "compare"
                /\ (pc[th] \in {"load", "make_gr", "run_gr", "make_edr", "run_edr"}
                    /\ pc'[th] \in {"main", "crashed"}) =>
                      /\ report'[frame[th].pair].stage # "none"
                      /\ out_files' = out_files]_vars
    /\ [][\A p \in 1..NumPairs :
            out_files'[p] # out_files[p] =>
                /\ out_files[p] = NoRecord
                /\ \E th \in Threads :
                      /\ pc[th] = "write"
                      /\ frame[th].pair = p
                      /\ pc'[th] = "main"]_vars
    /\ [](\A p \in 1..NumPairs : report[p].stage # "none" => out_files[p] = NoRecord)

\* the first pair failed in an integration, the second in its load, and
\* neither has a record
C24_Witness ==
    /\ report[1].stage = "run_nested"
    /\ report[2].stage = "load_processed"
    /\ out_files[1] = NoRecord
    /\ out_files[2] = NoRecord
    /\ pc[1] = "done"

\* C26: in a sequential batch the module-level series is, at every loglike
\* evaluation, the one loaded for the pair being analysed: it is replaced
\* only by a successful load at the start of an analysis, a failed load
\* leaves it unchanged and no loglike is evaluated for that pair, and no
\* loglike is evaluated before the first successful load.
C26_SeriesIsTheCurrentPairs ==
    /\ [][\A th \in Threads :
            sampler'[th].evals = sampler[th].evals + 1 =>
                /\ data.owner # 0
                /\ data.owner = frame[th].pair
                /\ data.value = FileValues(frame[th].pair)
                /\ sampler'[th].last.read = frame[th].pair
                /\ report[frame[th].pair] = NoReport]_vars
    /\ [][data' # data =>
            \E th \in Threads :
                /\ pc[th] = "load"
                /\ pc'[th] = "make_gr"
                /\ data' = [owner |-> frame[th].pair,
                            value |-> FileValues(frame[th].pair)]]_vars
    /\ [][\A th \in Threads :
            (pc[th] = "load" /\ pc'[th] \notin {"load", "make_gr"}) =>
                /\ data' = data
                /\ pc'[th] = "main"
                /\ report'[frame[th].pair].stage = "load_processed"
                /\ sampler'[th] = NoSampler]_vars

\* the second pair is being evaluated on its own series after the first
\* pair was analysed
C26_Witness ==
    /\ report[1] # NoReport
    /\ frame[1].pair = 2
    /\ sampler[1].last # NoEval
    /\ sampler[1].last.read = 2
    /\ data.owner = 2

\* C23: a comparison record, once persisted for an (event, detector)
\* analysis, is never modified afterwards by any later operation of the
\* program: not by the analysis of another pair, and not by a later
\* bayes_compare call for the same event and detector.
C23_RecordNeverModified ==
    [][\A p \in 1..NumPairs :
          out_files[p] # NoRecord => out_files'[p] = out_files[p]]_vars

-----------------------------------------------------------------------------
(* Claims about the comparison, under SpecSingle *)

\* C22: every persisted record holds the event, the detector, the remnant
\* mass and spin of the call, both log-evidences with their uncertainties,
\* dlogZ, the Bayes factor and the favored label, under the same names in
\* every run, and is consistent: dlogZ = logZ_EDR - logZ_GR, and favored is
\* the label the comparison (exp(dlogZ) > 1) gives for that dlogZ.
C22_RecordCompleteAndConsistent ==
    /\ [](\A p \in 1..NumPairs :
          out_files[p] # NoRecord =>
              LET r == out_files[p]
              IN  /\ DOMAIN r = {"event", "detector", "Mrem", "chi", "logZ_GR",
                                 "logZerr_GR", "logZ_EDR", "logZerr_EDR", "dlogZ",
                                 "BayesFactor", "favored"}
                  /\ r.event = PairEvent(p).event
                  /\ r.detector = PairDetector(p)
                  /\ r.Mrem = PairEvent(p).Mrem
                  /\ r.chi = PairEvent(p).chi
                  /\ r.dlogZ = FSub(r.logZ_EDR, r.logZ_GR)
                  /\ r.BayesFactor = NpExp(r.dlogZ)
                  /\ r.favored = IF GreaterThanOne(NpExp(r.dlogZ)) THEN "EDR" ELSE "GR")
    /\ [][\A th \in Threads :
            (pc[th] = "write" /\ pc'[th] # "write") =>
                LET r == out_files'[frame[th].pair]
                IN  /\ r.logZ_GR = frame[th].logZ_gr
                    /\ r.logZerr_GR = frame[th].logZerr_gr
                    /\ r.logZ_EDR = frame[th].logZ_edr
                    /\ r.logZerr_EDR = frame[th].logZerr_edr]_vars

\* a written record whose evidences differ, with different uncertainties
C22_Witness ==
    \E p \in 1..NumPairs :
        /\ out_files[p] # NoRecord
        /\ out_files[p].logZ_GR = Z(-95, 0)
        /\ out_files[p].logZ_EDR = Z(-1600, 0)
        /\ out_files[p].logZerr_GR # out_files[p].logZerr_EDR
        /\ out_files[p].favored = "GR"

\* C2: for the evidences produced in bayes_compare, dlogZ is
\* logZ_EDR - logZ_GR, BayesFactor is exp(dlogZ), and favored is "EDR" if
\* BayesFactor > 1 and "GR" otherwise.
C2_ComparisonOfEvidences ==
    /\ \A th \in Threads :
          pc[th] = "write" =>
              /\ frame[th].out.logZ_GR = frame[th].logZ_gr
              /\ frame[th].out.logZ_EDR = frame[th].logZ_edr
    /\ \A p \in 1..NumPairs :
          LET r == IF out_files[p] # NoRecord THEN out_files[p]
                   ELSE IF \E th \in Threads : pc[th] = "write" /\ frame[th].pair = p
                   THEN frame[CHOOSE th \in Threads : pc[th] = "write" /\ frame[th].pair = p].out
                   ELSE NoRecord
          IN  r # NoRecord =>
                /\ r.dlogZ.n = r.logZ_EDR.n - r.logZ_GR.n
                /\ r.dlogZ.k = IF r.dlogZ.n = 0 THEN r.logZ_EDR.k - r.logZ_GR.k ELSE 0
                /\ r.BayesFactor.kind =
                      IF r.dlogZ.n > ExpMaxArg THEN "inf"
                      ELSE IF r.dlogZ.n < ExpMinArg THEN "zero" ELSE "finite"
                /\ r.BayesFactor.kind = "finite" => r.BayesFactor.ln = r.dlogZ.n
                /\ r.favored \in {"EDR", "GR"}
                /\ r.favored = "EDR" <=>
                      \/ r.BayesFactor.kind = "inf"
                      \/ r.BayesFactor.kind = "finite" /\ r.BayesFactor.ln > 0

\* a written record that favours the extended model by dlogZ = 5
C2_Witness ==
    \E p \in 1..NumPairs :
        /\ out_files[p] # NoRecord
        /\ out_files[p].logZ_GR = Z(-100, 0)
        /\ out_files[p].logZ_EDR = Z(-95, 0)
        /\ out_files[p].dlogZ = Z(5, 0)
        /\ out_files[p].favored = "EDR"

\* C3: favored follows the sign of dlogZ at every magnitude: "EDR" exactly
\* when dlogZ > 0 and "GR" exactly when dlogZ <= 0, whatever exp(dlogZ)
\* overflows or underflows to; equal evidences give BF = 1 and "GR".
C3_FavoredFollowsSign ==
    \A p \in 1..NumPairs :
        out_files[p] # NoRecord =>
            /\ out_files[p].favored = "EDR" <=> FPositive(out_files[p].dlogZ)
            /\ out_files[p].logZ_GR = out_files[p].logZ_EDR =>
                  /\ out_files[p].BayesFactor = [kind |-> "finite", ln |-> 0]
                  /\ out_files[p].favored = "GR"

-----------------------------------------------------------------------------
(* Claims about the prior transforms, under SpecCalls *)

\* C6: for both models prior_transform at u = (0,...,0) returns exactly the
\* declared lower bound of every parameter and at u = (1,...,1) exactly the
\* declared upper bound: amplitude from 0 (to 2 baseline, 1 extended),
\* frequency and decay 0.5x to 1.5x the baseline value, deviations -0.5 to
\* 0.5, phases -pi to pi, onset 0 to 0.05 s.
C6_CornersGiveBounds ==
    (call.fn = "prior_transform" /\ call.raised = "none" /\ ~call.env.complex) =>
        LET n     == Len(call.u)
            theta == call.theta
            g     == freq_tau(call.Mrem, call.chi, "22")
        IN  /\ (call.model = "gr" /\ call.u = [i \in 1..n |-> 0]) =>
                  /\ theta[1] = 0
                  /\ 2 * theta[2] = ToTheta(g.f0)
                  /\ 2 * theta[3] = ToTheta(g.tau)
                  /\ theta[4] = -ToTheta(1000)
                  /\ theta[5] = 0
            /\ (call.model = "gr" /\ call.u = [i \in 1..n |-> UDen]) =>
                  /\ theta[1] = ToTheta(2000)
                  /\ 2 * theta[2] = 3 * ToTheta(g.f0)
                  /\ 2 * theta[3] = 3 * ToTheta(g.tau)
                  /\ theta[4] = ToTheta(1000)
                  /\ theta[5] = ToTheta(5000)
            /\ (call.model = "edr" /\ call.u = [i \in 1..n |-> 0]) =>
                  /\ \A i \in 1..3 : theta[i] = 0
                  /\ \A i \in 4..9 : theta[i] = -ToTheta(500)
                  /\ \A i \in 10..12 : theta[i] = -ToTheta(1000)
                  /\ theta[13] = 0
            /\ (call.model = "edr" /\ call.u = [i \in 1..n |-> UDen]) =>
                  /\ \A i \in 1..3 : theta[i] = ToTheta(1000)
                  /\ \A i \in 4..9 : theta[i] = ToTheta(500)
                  /\ \A i \in 10..12 : theta[i] = ToTheta(1000)
                  /\ theta[13] = ToTheta(5000)

\* the baseline transform of GW150914's remnant at u = (1,...,1)
C6_Witness ==
    /\ call.fn = "prior_transform"
    /\ call.model = "gr"
    /\ call.Mrem = 680
    /\ call.chi = 67
    /\ call.raised = "none"
    /\ call.u = [i \in 1..5 |-> UDen]
    /\ call.theta[2] > 0
    /\ call.theta[4] = ToTheta(1000)

\* C7: for every remnant the model constructors accept, prior_transform is
\* strictly monotone in each component (raising u_i raises theta_i and
\* leaves the others) and every component lies within [min_i, max_i] with
\* min_i < max_i.
C7_StrictlyMonotoneOntoBox ==
    (call.fn = "prior_transform" /\ call.raised = "none" /\ ~call.env.complex) =>
        LET n      == Len(call.u)
            pt(v)  == IF call.model = "gr" THEN prior_transform_gr(call.env, v)
                      ELSE prior_transform_edr(call.env, v)
            lo     == pt([i \in 1..n |-> 0])
            hi     == pt([i \in 1..n |-> UDen])
        IN  \A i \in 1..n :
                /\ lo[i] < hi[i]
                /\ lo[i] <= call.theta[i]
                /\ call.theta[i] <= hi[i]
                /\ \A k \in 0..UDen :
                      k > call.u[i] =>
                          LET th2 == pt([call.u EXCEPT ![i] = k])
                          IN  /\ th2[i] > call.theta[i]
                              /\ \A j \in (1..n) \ {i} : th2[j] = call.theta[j]

-----------------------------------------------------------------------------
(* Claims about freq_tau, under SpecCalls *)

\* C28: for every remnant state with spin in [0,1) and mass > 0 and every u
\* of the unit cube, the decay time loglike hands to damped_sine is
\* strictly positive: tau within [0.5, 1.5] x tau_th for the baseline,
\* tau_gr*(1 + d_tau) with d_tau >= -0.5 for the extended model.
C28_DecayTimePositive ==
    (/\ call.fn = "prior_transform"
     /\ call.Mrem > 0
     /\ call.chi >= 0
     /\ call.chi < 100) =>
        /\ call.raised = "none"
        /\ call.model = "gr" =>
              /\ unpack_gr(call.theta).tau > 0
              /\ unpack_gr(call.theta).tau >= call.env.tau_min
              /\ unpack_gr(call.theta).tau <= call.env.tau_max
              /\ call.env.tau_min > 0
        /\ call.model = "edr" =>
              LET p == unpack_edr(call.theta)
              IN  /\ p.d_tau22 >= ToTheta(-500)
                  /\ p.d_tau33 >= ToTheta(-500)
                  /\ p.d_tau21 >= ToTheta(-500)
                  /\ shifted(call.env.tau22_gr, p.d_tau22) > 0
                  /\ shifted(call.env.tau33_gr, p.d_tau33) > 0
                  /\ shifted(call.env.tau21_gr, p.d_tau21) > 0

\* the extended model of the lightest, fastest-spinning remnant, at the
\* corner of the cube where every deviation ratio is -0.5
C28_Witness ==
    /\ call.fn = "prior_transform"
    /\ call.model = "edr"
    /\ call.Mrem = 190
    /\ call.chi = 99
    /\ call.raised = "none"
    /\ unpack_edr(call.theta).d_tau22 = ToTheta(-500)
    /\ unpack_edr(call.theta).d_tau33 = ToTheta(-500)
    /\ unpack_edr(call.theta).d_tau21 = ToTheta(-500)

\* C11: for every mass > 0, every spin in [0, 1) and each supported mode,
\* freq_tau returns a strictly positive frequency and a strictly positive
\* decay time, with tau = Q / (pi * f0).
C11_PositiveFrequencyAndDecay ==
    (call.fn = "freq_tau" /\ call.mode \in {"22", "33", "21"}
        /\ call.M_solar > 0 /\ call.chi >= 0 /\ call.chi < 100) =>
        LET co == ModeCoeffs(call.mode)
            Q  == quality_factor(call.chi, co.q1, co.q2, co.q3)
        IN  /\ call.result.raised = "none"
            /\ ~call.result.complex
            /\ call.result.f0 > 0
            /\ call.result.tau > 0
            /\ Q.kind = "real"
            /\ call.result.tau = RoundDiv(Q.val * 100 * PiDen, PiNum * call.result.f0)

\* the 21 mode of the lightest remnant at spin 0.99
C11_Witness ==
    /\ call.fn = "freq_tau"
    /\ call.mode = "21"
    /\ call.M_solar = 190
    /\ call.chi = 99
    /\ call.result.raised = "none"
    /\ call.result.f0 > 0
    /\ call.result.tau > 0

\* C9: freq_tau fails with an invalid-input error, returning no (f0, tau)
\* pair, whenever the spin is outside [0, 1), for each supported mode and
\* any (positive) mass.
C9_SpinOutsideRangeFails ==
    (call.fn = "freq_tau" /\ call.mode \in {"22", "33", "21"}
        /\ call.M_solar > 0 /\ (call.chi < 0 \/ call.chi >= 100))
    => call.result.raised # "none"

\* C10: freq_tau raises ValueError for every mode label other than "22",
\* "33" and "21", before any frequency or decay time is computed, and raises
\* no mode error for those three labels.
C10_UnsupportedModeRaises ==
    call.fn = "freq_tau" =>
        IF call.mode \in {"22", "33", "21"}
        THEN call.result.raised # "ValueError"
        ELSE /\ call.result.raised = "ValueError"
             /\ \A i \in 1..Len(call.result.steps) :
                    call.result.steps[i] \notin {"Momega", "omega", "f0", "Q", "tau"}

C10_Witness ==
    /\ call.fn = "freq_tau"
    /\ call.mode = "44"
    /\ call.M_solar = 680 /\ call.chi = 67
    /\ call.result.raised = "ValueError"

====
